---- MODULE Spec2Model ----
(***************************************************************************)
(* Routing-and-orchestration core of signal-backend.                       *)
(*                                                                         *)
(* Spec         one streaming chat turn: routes/chat.ts POST /stream       *)
(*              driving OrchestrationService.generateStreamingResponse,    *)
(*              LLMService, EmbeddingService and the MCP client.           *)
(* FairSpec     the same, with every pending backend call answering.       *)
(* GatewaySpec  MCPClientService shared by concurrent callers.             *)
(***************************************************************************)
EXTENDS Integers, Sequences, FiniteSets, TLC

\* ------------------------------------------------------------------ bounds
MaxDeltas == 2
MaxLines == 2
MaxResults == 2
MaxCalls == 3
MaxPassages == 4
MaxRanked == 2
MaxIntents == 2
MaxItems == 2
MaxFrames == 2

\* ------------------------------------------------------- program constants
Messages == {"m1", "m2"}
SpotifyTool == "get_current_spotify_track"
OtherTool == "not_a_registered_tool"
ToolNames == {SpotifyTool, OtherTool}

\* MESSAGES of utils/messages.ts that the modelled paths use
invalidApiKey == "Invalid OpenRouter API key"
rateLimit == "Rate limit exceeded. Please try again later."
badRequest == "Invalid request"
streamingFailed == "Streaming failed"
streamingFailedGeneral == "Failed to generate streaming LLM response"
failedResponse == "Failed to generate response"
llmFailed == "Failed to generate LLM response"
badRequestDefault == "Bad request"

\* error.response.data.error.message of a failed request: absent, or text
\* written by the backend
NoBody == ""
BackendText == "text of the backend's error body"
ErrorBodies == {NoBody, BackendText}

\* ------------------------------------------------------------ text helpers
\* A text is a sequence of one-character strings.
IsSpace(c) == c = " "

RECURSIVE Flatten(_)
Flatten(ss) == IF ss = <<>> THEN <<>> ELSE Head(ss) \o Flatten(Tail(ss))

\* the characters of a text, each a text of its own
CharsOf(text) == [i \in 1..Len(text) |-> <<text[i]>>]

Last(s) == s[Len(s)]
Front(s) == SubSeq(s, 1, Len(s) - 1)

\* ---------------------------------------------------- the routing decision
SmartRoutingDecision ==
  [useRAG : BOOLEAN, mcpTool : ToolNames \cup {""}, directResponse : BOOLEAN,
   confidence : {50, 95}]

\* confidence is kept in hundredths: 0.5 is 50
SafeFallbackDecisionNoRAG ==
  [useRAG |-> FALSE, mcpTool |-> "", directResponse |-> FALSE, confidence |-> 50]

SafeFallbackDecision ==
  [useRAG |-> TRUE, mcpTool |-> "", directResponse |-> FALSE, confidence |-> 50]

NoDecision == [useRAG |-> FALSE, mcpTool |-> "", directResponse |-> FALSE,
               confidence |-> 0]

\* ------------------------------------------- the router's reply, as tokens
\* A reply text is a sequence of tokens: the fence "```json", the fence
\* "```", a whitespace run, a complete JSON object holding a decision, the
\* JSON literal null, and text that is not JSON.
FenceJson == [t |-> "fencejson", d |-> NoDecision]
Fence == [t |-> "fence", d |-> NoDecision]
Ws == [t |-> "ws", d |-> NoDecision]
Garbage == [t |-> "garbage", d |-> NoDecision]
JsonNull == [t |-> "null", d |-> NoDecision]
Obj(d) == [t |-> "obj", d |-> d]

RECURSIVE DropLeadingWs(_)
DropLeadingWs(s) ==
  IF s # <<>> /\ Head(s) = Ws THEN DropLeadingWs(Tail(s)) ELSE s

RECURSIVE DropTrailingWs(_)
DropTrailingWs(s) ==
  IF s # <<>> /\ Last(s) = Ws THEN DropTrailingWs(Front(s)) ELSE s

\* String.prototype.trim
Trim(s) == DropTrailingWs(DropLeadingWs(s))

\* .replace(/^```json\s*/, '') and .replace(/^```\s*/, '')
StripLeadingFence(s) == DropLeadingWs(Tail(s))

\* .replace(/\s*```$/, '')
StripTrailingFence(s) ==
  IF s # <<>> /\ Last(s) = Fence THEN DropTrailingWs(Front(s)) ELSE s

StripCodeFenceNoTrailing(s) ==
  LET jsonText == Trim(s) IN
  IF jsonText # <<>> /\ Head(jsonText) = FenceJson
    THEN StripLeadingFence(jsonText)
    ELSE IF jsonText # <<>> /\ Head(jsonText) = Fence
      THEN StripLeadingFence(jsonText)
      ELSE jsonText

StripCodeFence(s) ==
  LET jsonText == Trim(s) IN
  IF jsonText # <<>> /\ Head(jsonText) = FenceJson
    THEN StripTrailingFence(StripLeadingFence(jsonText))
    ELSE IF jsonText # <<>> /\ Head(jsonText) = Fence
      THEN StripTrailingFence(StripLeadingFence(jsonText))
      ELSE jsonText

\* JSON.parse accepts one JSON value with whitespace around it.
JsonParses(s) == Len(Trim(s)) = 1 /\ Trim(s)[1].t \in {"obj", "null"}
JsonValue(s) == Trim(s)[1]

\* ------------------------------------------------ LLMService (non-streaming)
HttpErrors == {401, 429, 400, 500, 0}

\* the failed requests: a status with the error message of its body; only
\* the body of a 400 is read
HttpFailures ==
  {f \in [status : HttpErrors, body : ErrorBodies] :
     f.status # 400 => f.body = NoBody}

\* the catch blocks of generateResponse / generateStreamingResponse: the
\* thrown message, as its pieces, by status; 0 stands for an error without
\* a response. A 400 appends the body's error message to 'Invalid request'.
mapAxiosError(status, body, general) ==
  IF status = 401 THEN <<invalidApiKey>>
  ELSE IF status = 429 THEN <<rateLimit>>
  ELSE IF status = 400
    THEN <<badRequest, ": ", IF body = NoBody THEN badRequestDefault ELSE body>>
  ELSE <<general>>

Decisions == {d \in SmartRoutingDecision : d.confidence = 95}

ReplyTexts ==
  UNION {{<<Obj(d)>>, <<Ws, Obj(d), Ws>>,
          <<FenceJson, Ws, Obj(d), Ws, Fence>>,
          <<Fence, Ws, Obj(d), Ws, Fence>>,
          <<FenceJson, Obj(d)>>,
          <<Obj(d), Ws, Fence>>,
          <<Obj(d), Garbage>>} : d \in Decisions}
  \cup {<<>>, <<Garbage>>, <<JsonNull>>, <<FenceJson, Ws, Garbage, Ws, Fence>>}

RouterReplies ==
  {[kind |-> "httpError", status |-> f.status, text |-> <<>>, body |-> f.body] :
     f \in HttpFailures}
  \cup [kind : {"noChoices", "nullContent"}, status : {200}, text : {<<>>},
        body : {NoBody}]
  \cup [kind : {"text"}, status : {200}, text : ReplyTexts, body : {NoBody}]

\* generateResponse: the message it resolves with, or the error it throws
generateResponse(reply) ==
  IF reply.kind = "httpError"
    THEN [threw |-> TRUE,
          error |-> mapAxiosError(reply.status, reply.body, llmFailed),
          isNull |-> FALSE, message |-> <<>>]
  ELSE IF reply.kind = "noChoices"
    THEN [threw |-> TRUE, error |-> <<llmFailed>>, isNull |-> FALSE, message |-> <<>>]
  ELSE [threw |-> FALSE, error |-> <<>>, isNull |-> reply.kind = "nullContent",
        message |-> reply.text]

\* a reply that is a transport error or that JSON.parse rejects
RouterReplyFails(reply) ==
  \/ reply.kind # "text"
  \/ ~JsonParses(StripCodeFence(reply.text))

smartRoutingRethrows(reply) ==
  LET response == generateResponse(reply) IN
  IF response.threw \/ response.isNull
    THEN [threw |-> TRUE, caught |-> FALSE, decision |-> NoDecision]
  ELSE LET jsonText == StripCodeFence(response.message) IN
    IF ~JsonParses(jsonText) \/ JsonValue(jsonText).t = "null"
      THEN [threw |-> TRUE, caught |-> FALSE, decision |-> NoDecision]
      ELSE [threw |-> FALSE, caught |-> FALSE, decision |-> JsonValue(jsonText).d]

\* smartRouting: every throw inside its try (the transport error, trim() of
\* a null message, JSON.parse, reading a field of null) reaches its catch.
smartRouting(reply) ==
  LET response == generateResponse(reply) IN
  IF response.threw \/ response.isNull
    THEN [threw |-> FALSE, caught |-> TRUE, decision |-> SafeFallbackDecision]
  ELSE LET jsonText == StripCodeFence(response.message) IN
    IF ~JsonParses(jsonText) \/ JsonValue(jsonText).t = "null"
      THEN [threw |-> FALSE, caught |-> TRUE, decision |-> SafeFallbackDecision]
      ELSE [threw |-> FALSE, caught |-> FALSE, decision |-> JsonValue(jsonText).d]

RouteOfRagFirst(routing) ==
  IF routing.useRAG THEN "rag"
  ELSE IF routing.directResponse /\ routing.mcpTool # "" THEN "directMCP"
  ELSE IF routing.mcpTool # "" THEN "mcp"
  ELSE "directLLM"

\* the if / else-if chain of generateStreamingResponse
RouteOf(routing) ==
  IF routing.directResponse /\ routing.mcpTool # "" THEN "directMCP"
  ELSE IF routing.useRAG THEN "rag"
  ELSE IF routing.mcpTool # "" THEN "mcp"
  ELSE "directLLM"

\* ------------------------------------------------------ EmbeddingService
Docs == {"p1", "p2", "null"}
QueryDocs == UNION {[1..n -> Docs] : n \in 0..MaxResults}

SearchOutcomes ==
  [kind : {"notInitialized", "unreachable", "collectionNotFound",
           "queryFailed", "noDocuments"},
   docs : {<<>>}]
  \cup [kind : {"ok"}, docs : QueryDocs]

SearchFails(o) ==
  o.kind \in {"notInitialized", "unreachable", "collectionNotFound", "queryFailed"}

searchSimilarRethrows(query, o) ==
  IF SearchFails(o)
    THEN [threw |-> TRUE, query |-> query, results |-> <<>>]
  ELSE [threw |-> FALSE, query |-> query,
        results |-> SelectSeq(o.docs, LAMBDA doc : doc # "null")]

\* searchSimilar: getCollectionForQuery and collection.query are inside the
\* try; documents[0] may be missing; null documents are filtered out.
searchSimilar(query, o) ==
  IF SearchFails(o) \/ o.kind = "noDocuments"
    THEN [threw |-> FALSE, query |-> query, results |-> <<>>]
  ELSE [threw |-> FALSE, query |-> query,
        results |-> SelectSeq(o.docs, LAMBDA doc : doc # "null")]

\* ---------------------------------------------------- MCP tool gateway use
\* what one callTool gives its caller: it throws when connect() fails, it
\* returns isError = true when the tool call fails, and otherwise the
\* normalised content (possibly empty).
CallToolOutcomes == {"threw", "isError", "content", "emptyContent"}
ToolFails(o) == o \in {"threw", "isError"}

determineService(tool) == IF tool = SpotifyTool THEN "spotify" ELSE "unknown"

noTrack == <<"a", " ", "b">>
FormattedTexts == {<<"a">>, <<"a", "b", " ", " ", "b">>, <<" ", "a", " ">>}

\* text.split(/\s+/): the runs of non-whitespace characters only
RECURSIVE RunsWithoutSpaces(_)
RunsWithoutSpaces(text) ==
  IF text = <<>> THEN <<>>
  ELSE LET rest == RunsWithoutSpaces(Tail(text)) IN
    IF IsSpace(Head(text)) THEN rest
    ELSE IF Len(text) > 1 /\ ~IsSpace(text[2])
      THEN <<(<<Head(text)>> \o Head(rest))>> \o Tail(rest)
      ELSE <<(<<Head(text)>>)>> \o rest

\* formatted.split(/(\s+)/) without its empty pieces: the maximal runs of
\* whitespace and of non-whitespace characters, in order
RECURSIVE Runs(_)
Runs(text) ==
  IF text = <<>> THEN <<>>
  ELSE LET rest == Runs(Tail(text)) IN
    IF rest # <<>> /\ IsSpace(Head(rest)[1]) = IsSpace(Head(text))
      THEN <<(<<Head(text)>> \o Head(rest))>> \o Tail(rest)
      ELSE <<(<<Head(text)>>)>> \o rest

\* ---------------------------------------------------- LLMService (streaming)
DeltaContents == {<<>>, <<"a">>, <<"b", "a">>}

\* one line of a data event: a frame with a content delta (possibly empty
\* or absent), a frame that is not valid JSON, a line that does not start
\* with "data: ", and the end-of-stream marker
Lines ==
  [k : {"delta"}, c : DeltaContents]
  \cup [k : {"invalid", "other", "done"}, c : {<<>>}]

\* the backend sends nothing but blank lines after the marker
Conforming(ev) ==
  \A i \in 1..Len(ev) : ev[i].k = "done" =>
    \A j \in (i + 1)..Len(ev) : ev[j].k = "other"

DataEvents ==
  {ev \in UNION {[1..n -> Lines] : n \in 1..MaxLines} : Conforming(ev)}

\* the non-empty content deltas of an event that precede the marker
RECURSIVE DeltasOf(_)
DeltasOf(ev) ==
  IF ev = <<>> \/ Head(ev).k = "done" THEN <<>>
  ELSE IF Head(ev).k = "delta" /\ Head(ev).c # <<>>
    THEN <<Head(ev).c>> \o DeltasOf(Tail(ev))
    ELSE DeltasOf(Tail(ev))

RECURSIVE onDataPrepends(_, _)
onDataPrepends(lines, st) ==
  IF lines = <<>> THEN st
  ELSE LET line == Head(lines) IN
    IF line.k = "other" THEN onDataPrepends(Tail(lines), st)
    ELSE IF line.k = "done"
      THEN [st EXCEPT !.settled = TRUE, !.message = st.fullContent]
    ELSE IF line.k = "delta" /\ line.c # <<>>
      THEN onDataPrepends(Tail(lines),
             [st EXCEPT !.fullContent = line.c \o @,
                        !.chunks = Append(@, line.c)])
      ELSE onDataPrepends(Tail(lines), st)

\* the 'data' listener of generateStreamingResponse, line by line; st holds
\* fullContent, the chunks handed to onChunk by this event, and whether the
\* promise was resolved (with which message)
RECURSIVE onData(_, _)
onData(lines, st) ==
  IF lines = <<>> THEN st
  ELSE LET line == Head(lines) IN
    IF line.k = "other" THEN onData(Tail(lines), st)
    ELSE IF line.k = "done"
      THEN [st EXCEPT !.settled = TRUE, !.message = st.fullContent]
    ELSE IF line.k = "delta" /\ line.c # <<>>
      THEN onData(Tail(lines),
             [st EXCEPT !.fullContent = @ \o line.c,
                        !.chunks = Append(@, line.c)])
      ELSE onData(Tail(lines), st)

PostOutcomes == {[status |-> 200, body |-> NoBody]} \cup HttpFailures

\* ------------------------------------------------- conversations (prompts)
\* a ChatMessage: its role, what its content is built from (kind), the
\* context texts joined into it, and the message text it carries
Msg(role, kind, ctx, text) == [role |-> role, kind |-> kind, ctx |-> ctx, text |-> text]

\* conversationHistory as chatRequestSchema admits it: roles user, assistant
Histories ==
  {<<>>, <<Msg("user", "text", <<>>, "h1"), Msg("assistant", "text", <<>>, "h2")>>}

\* the validated requests tried: a first message without history, and a
\* later message with the earlier exchange as history
Requests ==
  {r \in [message : Messages, conversationHistory : Histories] :
     r.message = "m1" <=> r.conversationHistory = <<>>}

\* smartRouting: one user message holding the routing prompt
routingMessages(msg, hist) ==
  <<Msg("user", "routingPrompt", <<>>, msg)>>

\* executeDirectLLMFlow
directMessages(msg, hist) ==
  <<Msg("system", "DIRECT_LLM_SYSTEM_PROMPT", <<>>, "")>> \o hist
    \o <<Msg("user", "text", <<>>, msg)>>

\* executeRAGFlow: 'Context about Anthony Bruno:' with the passages joined
ragMessages(retrievedChunks, msg, hist) ==
  <<Msg("system", "RAG_SYSTEM_PROMPT", <<>>, "")>> \o hist
    \o <<Msg("user", "contextMessage", retrievedChunks, msg)>>

\* getMCPToolData pushing the text of an error-flagged result as well
toolResultsRaw(o) ==
  IF o = "threw" THEN <<"Error - Tool unavailable">>
  ELSE IF o = "content" THEN <<"textContent">>
  ELSE IF o = "isError" THEN <<"Tool execution failed">>
  ELSE <<>>

\* getMCPToolData: the texts pushed for one tool call
toolResults(o) ==
  IF o = "threw" THEN <<"Error - Tool unavailable">>
  ELSE IF o = "content" THEN <<"textContent">>
  ELSE <<>>

\* executeMCPFlow: 'Live data from tools:' with the tool results joined
mcpMessages(results, msg, hist) ==
  <<Msg("system", "MCP_SYSTEM_PROMPT", <<>>, "")>> \o hist
    \o <<Msg("user", "toolContextMessage", results, msg)>>

\* ------------------------------------------------------------------- state
VARIABLES
  pc,           \* where the chat turn is
  message,      \* the request's message
  routing,      \* the decision smartRouting returned
  tryFrame,     \* the executeRAGFlow / executeMCPFlow try block still open
  flow,         \* the flow whose generator call is pending or streaming
  trace,        \* backend calls issued and lines written, in order
  ended,        \* res.end() was called
  rejected,     \* generateStreamingResponse rejected
  failed,       \* the stages that failed in this turn
  words,        \* the pieces of the direct tool reply still to stream
  fullContent,  \* fullContent of the generator call in progress
  callChunks,   \* the chunks that call handed to onChunk
  arrived,      \* the content deltas that call received
  genResult,    \* how the last generator call settled
  searchOutcome, \* what the vector store did for this turn's query
  searchResult, \* what searchSimilar returned
  history,      \* the request's conversationHistory
  sent,         \* the conversations passed to the LLM backend, in order
  formatted,    \* the text formatDirectResponse returned, <<>> before
  routerIn,     \* RouterSpec: the reply the routing request gets
  routerOut,    \* RouterSpec: what smartRouting made of it
  mcpTransport, \* GatewaySpec: process.env.MCP_TRANSPORT
  isConnected,  \* MCPClientService.isConnected
  client,       \* MCPClientService.client, 0 for null
  httpClient,   \* MCPClientService.httpClient, 0 for null
  transportType, \* MCPClientService.transportType
  proc,         \* what each caller of the gateway is waiting for
  nextId,       \* the identity of the next handle constructed
  setups,       \* connection setups begun
  failedSetups, \* connection setups that failed
  opened,       \* the handles whose connection is established
  calls,        \* the calls that settled, in order, with their results
  started,      \* calls begun
  closing,      \* the handle disconnect() is closing, 0 for none
  disconnects,  \* disconnect() calls completed
  chromaClient, \* StoreSpec: the module's chromaClient, 0 for null
  initProc,     \* StoreSpec: where each caller of initializeChromaDB is
  constructed,  \* StoreSpec: ChromaClient instances constructed
  heartbeats,   \* StoreSpec: heartbeat() connection checks issued
  inits,        \* StoreSpec: the initializeChromaDB calls that settled
  toolCalls,    \* ChatSpec: the tool_calls deltas accumulated from the stream
  ctxIn,        \* ContextSpec: the passages searchSimilarContent returned
  ctxOut,       \* ContextSpec: what retrieveContext made of them
  rankIn,       \* FilterSpec: rerank results, chroma results and two cutoffs
  rankOut,      \* FilterSpec: the ranked documents and the documents kept
  intentIn,     \* StrategySpec: the cosine score of each intent, the env
  strategyOut,  \* StrategySpec: classifyQuery's and the strategy's result
  toolResponse, \* NormalizeSpec: a raw tool response and callTool's result
  formatterRun, \* FormatterSpec: tool results and the formatter's output
  contextRun,   \* GenerateContextSpec: one generateContext call
  framing,      \* FramingSpec: one response stream, delivered in pieces
  pacing,       \* PacingSpec: one formatted text, streamed in paced chunks
  intentInit,   \* IntentSpec: the exemplar embeddings, their cache file, the calls
  limiter       \* RateSpec: the clock, app.locals['rateLimit'], the requests served

turnVars == <<pc, message, routing, tryFrame, flow, trace, ended, rejected,
              failed, words, fullContent, callChunks, arrived, genResult,
              searchOutcome, searchResult, history, sent, formatted>>

routerVars == <<routerIn, routerOut>>

gatewayVars == <<mcpTransport, isConnected, client, httpClient, transportType,
                 proc, nextId, setups, failedSetups, opened, calls, started,
                 closing, disconnects>>

storeVars == <<chromaClient, initProc, constructed, heartbeats, inits>>

chatVars == <<toolCalls>>

retrievalVars == <<ctxIn, ctxOut, rankIn, rankOut, intentIn, strategyOut>>

\* the units modelled after the stream framing
otherUnits == <<pacing, intentInit, limiter>>

unitVars == <<toolResponse, formatterRun, contextRun, framing, otherUnits>>

vars == <<turnVars, routerVars, gatewayVars, storeVars, chatVars,
          retrievalVars, unitVars>>

\* what the actions of one component leave alone
notTurnVars == <<routerVars, gatewayVars, storeVars, chatVars, retrievalVars,
  unitVars>>
notRouterVars == <<turnVars, gatewayVars, storeVars, chatVars, retrievalVars,
  unitVars>>
notGatewayVars == <<turnVars, routerVars, storeVars, chatVars, retrievalVars,
  unitVars>>
notStoreVars == <<turnVars, routerVars, gatewayVars, chatVars, retrievalVars,
  unitVars>>
notChatVars == <<routerVars, gatewayVars, storeVars, retrievalVars,
  unitVars>>
notRetrievalVars ==
  <<turnVars, routerVars, gatewayVars, storeVars, chatVars, unitVars>>
notUnitVars ==
  <<turnVars, routerVars, gatewayVars, storeVars, chatVars, retrievalVars>>

Entry(k, v) == [k |-> k, v |-> v]
Pending == [status |-> "none", by |-> "", message |-> <<>>, error |-> <<>>]
NoSearch == [threw |-> FALSE, query |-> "", results |-> <<>>]
NoOutcome == [kind |-> "none", docs |-> <<>>]
NoReply == [kind |-> "none", status |-> 0, text |-> <<>>, body |-> NoBody]
NoRouting == [threw |-> FALSE, caught |-> FALSE, decision |-> NoDecision]

TurnInit ==
  /\ pc = "start"
  /\ \E r \in Requests : message = r.message /\ history = r.conversationHistory
  /\ routing = NoDecision
  /\ tryFrame = "none"
  /\ flow = "none"
  /\ trace = <<>>
  /\ ended = FALSE
  /\ rejected = FALSE
  /\ failed = {}
  /\ words = <<>>
  /\ fullContent = <<>>
  /\ callChunks = <<>>
  /\ arrived = <<>>
  /\ genResult = Pending
  /\ searchOutcome = NoOutcome
  /\ searchResult = NoSearch
  /\ sent = <<>>
  /\ formatted = <<>>

\* ----------------------------------------------- MCPClientService state
NumCallers == 2
MaxDisconnects == 1
Callers == 1..NumCallers
Idle == [st |-> "idle", op |-> "none", own |-> 0, h |-> 0, live |-> FALSE]

\* the fields of a new MCPClientService
GatewayNew ==
  /\ isConnected = FALSE
  /\ client = 0
  /\ httpClient = 0
  /\ transportType = "stdio"
  /\ proc = [p \in Callers |-> Idle]
  /\ nextId = 1
  /\ setups = 0
  /\ failedSetups = 0
  /\ opened = {}
  /\ calls = <<>>
  /\ started = 0
  /\ closing = 0
  /\ disconnects = 0

\* config/chroma: the module variable before its first use
InitIdle == [st |-> "idle", own |-> 0]

StoreNew ==
  /\ chromaClient = 0
  /\ initProc = [p \in Callers |-> InitIdle]
  /\ constructed = 0
  /\ heartbeats = 0
  /\ inits = <<>>

\* handleStreamResponse: toolCalls before the first delta
ChatNew == toolCalls = <<>>

\* the retrieval functions: nothing given, nothing computed
NotRun == [done |-> FALSE]

OtherUnitsIdle ==
  /\ pacing = NotRun
  /\ intentInit = NotRun
  /\ limiter = NotRun

UnitsIdle ==
  /\ toolResponse = NotRun
  /\ formatterRun = NotRun
  /\ contextRun = NotRun
  /\ framing = NotRun
  /\ OtherUnitsIdle

RetrievalIdle ==
  /\ ctxIn = <<>>
  /\ ctxOut = NotRun
  /\ rankIn = NotRun
  /\ rankOut = NotRun
  /\ intentIn = NotRun
  /\ strategyOut = NotRun

Init ==
  /\ TurnInit
  /\ routerIn = NoReply
  /\ routerOut = NoRouting
  /\ mcpTransport = "stdio"
  /\ GatewayNew
  /\ StoreNew
  /\ ChatNew
  /\ UnitsIdle
  /\ RetrievalIdle

\* the lines of the response, in the order written
ChunksOf(tr) == SelectSeq(tr, LAMBDA e : e.k = "chunk")
RECURSIVE TextsOf(_)
TextsOf(es) == IF es = <<>> THEN <<>> ELSE <<Head(es).v>> \o TextsOf(Tail(es))
Count(tr, k) == Len(SelectSeq(tr, LAMBDA e : e.k = k))

\* ------------------------------------------------ POST /stream (chat.ts)
\* the handler after generateStreamingResponse resolved: the 'done' line
\* with the accumulated fullResponse, then res.end()
StreamDone(tr) ==
  /\ trace' = tr \o <<Entry("done", Flatten(TextsOf(ChunksOf(tr))))>>
  /\ ended' = TRUE
  /\ rejected' = FALSE
  /\ pc' = "done"

StreamCatchSilent(tr) ==
  /\ trace' = tr
  /\ ended' = TRUE
  /\ rejected' = TRUE
  /\ pc' = "done"

\* the handler's catch: the 'error' line, then res.end()
StreamCatch(tr) ==
  /\ trace' = tr \o <<Entry("error", <<failedResponse>>)>>
  /\ ended' = TRUE
  /\ rejected' = TRUE
  /\ pc' = "done"

\* the handler up to its await: headers written, the Orchestrator called,
\* which issues the routing request
StreamStart ==
  /\ pc = "start"
  /\ pc' = "routing"
  /\ trace' = trace \o <<Entry("route", <<>>)>>
  /\ sent' = Append(sent, routingMessages(message, history))
  /\ UNCHANGED <<message, history, formatted, routing, tryFrame, flow, ended, rejected, failed,
                 words, fullContent, callChunks, arrived, genResult,
                 searchResult, searchOutcome,
                 notTurnVars>>

\* ------------------------------------------------- OrchestrationService
\* the generator failed with tryFrame open: the catch of executeRAGFlow /
\* executeMCPFlow calls executeDirectLLMFlow; with none open the rejection
\* reaches the handler
GeneratorFailed(err, by, tr) ==
  /\ genResult' = [status |-> "rejected", by |-> by, message |-> <<>>,
                   error |-> err]
  /\ failed' = failed \cup {"generator"}
  /\ IF tryFrame # "none"
       THEN /\ tryFrame' = "none"
            /\ flow' = "directLLM"
            /\ trace' = tr \o <<Entry("generate", <<"directLLM">>)>>
            /\ sent' = Append(sent, directMessages(message, history))
            /\ pc' = "post"
            /\ UNCHANGED <<ended, rejected>>
       ELSE /\ StreamCatch(tr)
            /\ UNCHANGED <<tryFrame, flow, sent>>

\* smartRouting returned; generateStreamingResponse enters one flow, which
\* runs up to its first await
SmartRouting ==
  /\ pc = "routing"
  /\ \E reply \in RouterReplies :
       LET r == smartRouting(reply)
           tool == r.decision.mcpTool
       IN
       /\ failed' = IF r.threw \/ r.caught THEN failed \cup {"router"} ELSE failed
       /\ IF r.threw
            THEN /\ StreamCatch(trace)
                 /\ UNCHANGED <<routing, tryFrame, flow, sent>>
            ELSE
              /\ routing' = r.decision
              /\ UNCHANGED <<ended, rejected>>
              /\ flow' = RouteOf(r.decision)
              /\ CASE RouteOf(r.decision) = "directMCP" ->
                        /\ tryFrame' = "none"
                        /\ trace' = trace \o <<Entry("tools_starting", <<tool>>),
                                                Entry("callTool", <<tool>>)>>
                        /\ sent' = sent
                        /\ pc' = "directTool"
                   [] RouteOf(r.decision) = "rag" ->
                        /\ tryFrame' = "rag"
                        /\ trace' = trace \o <<Entry("search", <<message>>)>>
                        /\ sent' = sent
                        /\ pc' = "search"
                   [] RouteOf(r.decision) = "mcp" ->
                        /\ tryFrame' = "mcp"
                        /\ trace' = trace \o <<Entry("tools_starting", <<tool>>),
                                                Entry("callTool", <<tool>>)>>
                        /\ sent' = sent
                        /\ pc' = "tool"
                   [] OTHER ->
                        /\ tryFrame' = "none"
                        /\ trace' = trace \o <<Entry("generate", <<"directLLM">>)>>
                        /\ sent' = Append(sent, directMessages(message, history))
                        /\ pc' = "post"
  /\ UNCHANGED <<message, history, formatted, words, fullContent, callChunks, arrived, genResult,
                 searchResult, searchOutcome,
                 notTurnVars>>

\* executeRAGFlow after searchSimilar returned: no passage, and it calls
\* executeDirectLLMFlow inside its own try; otherwise it calls the
\* generator with the passages as context
ExecuteRAGFlow ==
  /\ pc = "search"
  /\ \E o \in SearchOutcomes :
       LET res == searchSimilar(message, o) IN
       /\ searchOutcome' = o
       /\ searchResult' = res
       /\ failed' = IF SearchFails(o) \/ res.threw THEN failed \cup {"search"} ELSE failed
       /\ IF res.threw
            THEN \* the catch of executeRAGFlow
                 /\ tryFrame' = "none"
                 /\ flow' = "directLLM"
            ELSE /\ tryFrame' = tryFrame
                 /\ flow' = IF Len(res.results) = 0 THEN "directLLM" ELSE "rag"
       /\ trace' = trace \o <<Entry("generate", <<flow'>>)>>
       /\ sent' = Append(sent,
            IF flow' = "rag" THEN ragMessages(res.results, message, history)
            ELSE directMessages(message, history))
  /\ pc' = "post"
  /\ UNCHANGED <<message, history, formatted, routing, ended, rejected, words, fullContent,
                 callChunks, arrived, genResult, notTurnVars>>

\* executeMCPFlow after getMCPToolData returned: a throwing callTool is
\* caught there, and the generator is called with the tool context
ExecuteMCPFlow ==
  /\ pc = "tool"
  /\ \E o \in CallToolOutcomes :
       /\ failed' = IF ToolFails(o) THEN failed \cup {"tool"} ELSE failed
       /\ sent' = Append(sent, mcpMessages(toolResults(o), message, history))
  /\ trace' = trace \o <<Entry("generate", <<"mcp">>)>>
  /\ pc' = "post"
  /\ UNCHANGED <<message, history, formatted, routing, tryFrame, flow, ended, rejected, words,
                 fullContent, callChunks, arrived, genResult, searchResult, searchOutcome,
                 notTurnVars>>

\* executeDirectMCPFlow after formatDirectResponse settled: a throwing
\* callTool or a tool without formatter rejects the whole turn; otherwise
\* the formatted text is split for streaming
ExecuteDirectMCPFlow ==
  /\ pc = "directTool"
  /\ \E o \in CallToolOutcomes, text \in FormattedTexts :
       /\ failed' = IF ToolFails(o) THEN failed \cup {"tool"} ELSE failed
       /\ IF o = "threw" \/ determineService(routing.mcpTool) = "unknown"
            THEN /\ StreamCatch(trace)
                 /\ UNCHANGED <<words, formatted>>
            ELSE /\ formatted' = IF o = "content" THEN text ELSE noTrack
                 /\ words' = Runs(formatted')
                 /\ pc' = "directStream"
                 /\ UNCHANGED <<trace, ended, rejected>>
  /\ UNCHANGED <<message, history, sent, routing, tryFrame, flow, fullContent, callChunks,
                 arrived, genResult, searchResult, searchOutcome,
                 notTurnVars>>

\* one turn of the word loop: onChunk(word), then the 25 ms pause
StreamWord ==
  /\ pc = "directStream"
  /\ words # <<>>
  /\ trace' = trace \o <<Entry("chunk", Head(words))>>
  /\ words' = Tail(words)
  /\ UNCHANGED <<pc, message, history, formatted, sent, routing, tryFrame, flow, ended, rejected, failed,
                 fullContent, callChunks, arrived, genResult, searchResult, searchOutcome,
                 notTurnVars>>

\* the word loop is over: the turn resolves
DirectMCPDone ==
  /\ pc = "directStream"
  /\ words = <<>>
  /\ StreamDone(trace)
  /\ UNCHANGED <<message, history, formatted, sent, routing, tryFrame, flow, failed, words, fullContent,
                 callChunks, arrived, genResult, searchResult, searchOutcome,
                 notTurnVars>>

\* --------------------------------- LLMService.generateStreamingResponse
\* client.post settled: an error status is mapped and thrown, otherwise
\* the listeners are attached to the stream
Post ==
  /\ pc = "post"
  /\ \E r \in PostOutcomes :
       IF r.status = 200
         THEN /\ pc' = "streaming"
              /\ genResult' = Pending
              /\ UNCHANGED <<tryFrame, flow, trace, sent, ended, rejected, failed>>
         ELSE GeneratorFailed(mapAxiosError(r.status, r.body, streamingFailedGeneral),
                              IF r.status = 0 THEN "noResponse" ELSE ToString(r.status),
                              trace)
  /\ fullContent' = <<>>
  /\ callChunks' = <<>>
  /\ arrived' = <<>>
  /\ UNCHANGED <<message, history, formatted, routing, words, searchResult, searchOutcome,
                 notTurnVars>>

\* a 'data' event
OnData ==
  /\ pc = "streaming"
  /\ \E ev \in DataEvents :
       LET st == onData(ev, [fullContent |-> fullContent, chunks |-> <<>>,
                             settled |-> FALSE, message |-> <<>>])
           tr == trace \o [i \in 1..Len(st.chunks) |-> Entry("chunk", st.chunks[i])]
       IN
       /\ Len(arrived) + Len(DeltasOf(ev)) <= MaxDeltas
       /\ arrived' = arrived \o DeltasOf(ev)
       /\ fullContent' = st.fullContent
       /\ callChunks' = callChunks \o st.chunks
       /\ IF st.settled
            THEN /\ genResult' = [status |-> "resolved", by |-> "marker",
                                  message |-> st.message, error |-> <<>>]
                 /\ StreamDone(tr)
            ELSE /\ trace' = tr
                 /\ UNCHANGED <<pc, ended, rejected, genResult>>
  /\ UNCHANGED <<message, history, formatted, sent, routing, tryFrame, flow, failed, words, searchResult, searchOutcome,
                 notTurnVars>>

\* the stream's 'error' event
OnError ==
  /\ pc = "streaming"
  /\ GeneratorFailed(<<streamingFailed>>, "streamError", trace)
  /\ UNCHANGED <<message, history, formatted, routing, words, fullContent, callChunks, arrived,
                 searchResult, searchOutcome,
                 notTurnVars>>

\* the stream's 'end' event without a marker before it
OnEnd ==
  /\ pc = "streaming"
  /\ genResult' = [status |-> "resolved", by |-> "end", message |-> fullContent,
                   error |-> <<>>]
  /\ StreamDone(trace)
  /\ UNCHANGED <<message, history, formatted, sent, routing, tryFrame, flow, failed, words, fullContent,
                 callChunks, arrived, searchResult, searchOutcome,
                 notTurnVars>>

Next ==
  \/ StreamStart
  \/ SmartRouting
  \/ ExecuteRAGFlow
  \/ ExecuteMCPFlow
  \/ ExecuteDirectMCPFlow
  \/ StreamWord
  \/ DirectMCPDone
  \/ Post
  \/ OnData
  \/ OnError
  \/ OnEnd

Spec == Init /\ [][Next]_vars

\* every pending backend call is answered and every stream ends
FairSpec == Spec /\ WF_vars(Next)

\* ------------------------------------------------- the router on its own
RouterInit ==
  /\ TurnInit
  /\ routerIn \in RouterReplies
  /\ routerOut = NoRouting
  /\ mcpTransport = "stdio"
  /\ GatewayNew
  /\ StoreNew
  /\ ChatNew
  /\ UnitsIdle
  /\ RetrievalIdle

\* smartRouting applied to the reply of the routing request
RouterDecide ==
  /\ routerIn # NoReply
  /\ routerOut = NoRouting
  /\ routerOut' = smartRouting(routerIn)
  /\ UNCHANGED <<routerIn, notRouterVars>>

RouterNext == RouterDecide

RouterSpec == RouterInit /\ [][RouterNext]_vars

\* ------------------------------------------ MCPClientService, concurrently
GatewayInit ==
  /\ TurnInit
  /\ message = "m1"
  /\ routerIn = NoReply
  /\ routerOut = NoRouting
  /\ mcpTransport \in {"stdio", "http"}
  /\ GatewayNew
  /\ StoreNew
  /\ ChatNew
  /\ UnitsIdle
  /\ RetrievalIdle

\* what callTool gives its caller: connect() is awaited before the try,
\* so its failure is thrown; a failure inside the try becomes an error
\* result with one text item; otherwise the tool's content and flag
callToolResult(fault, serverIsError) ==
  IF fault = "connect"
    THEN [threw |-> TRUE, isError |-> FALSE, content |-> "none"]
  ELSE IF fault # "none"
    THEN [threw |-> FALSE, isError |-> TRUE, content |-> "failureText"]
  ELSE [threw |-> FALSE, isError |-> serverIsError, content |-> "toolItems"]

\* what listTools gives its caller: every failure is thrown
listToolsResult(fault) ==
  IF fault # "none"
    THEN [threw |-> TRUE, isError |-> FALSE, content |-> "none"]
  ELSE [threw |-> FALSE, isError |-> FALSE, content |-> "tools"]

ResultOf(op, fault, serverIsError) ==
  IF op = "callTool" THEN callToolResult(fault, serverIsError)
  ELSE listToolsResult(fault)

\* the call of caller p settles
Settle(p, fault, serverIsError) ==
  /\ calls' = Append(calls,
       [caller |-> p, op |-> proc[p].op, fault |-> fault, via |-> proc[p].h,
        result |-> ResultOf(proc[p].op, fault, serverIsError)])
  /\ proc' = [proc EXCEPT ![p] = Idle]

\* the handle executeToolCall and listTools send the request over
HandleFor(tt, hc, cl) ==
  IF tt = "http" /\ hc # 0 THEN hc ELSE IF cl # 0 THEN cl ELSE 0

\* the body of the try up to its await: without a handle it throws 'No MCP
\* client available', otherwise the request is sent over the handle
BeginExecute(p, op, tt, hc, cl, open) ==
  IF HandleFor(tt, hc, cl) = 0
    THEN /\ calls' = Append(calls,
              [caller |-> p, op |-> op, fault |-> "noClient", via |-> 0,
               result |-> ResultOf(op, "noClient", FALSE)])
         /\ proc' = [proc EXCEPT ![p] = Idle]
    ELSE /\ proc' = [proc EXCEPT ![p] =
                [st |-> "executing", op |-> op, own |-> 0,
                 h |-> HandleFor(tt, hc, cl),
                 live |-> tt = "http" \/ HandleFor(tt, hc, cl) \in open]]
         /\ calls' = calls

\* callTool / listTools is entered: when not connected it runs connect(),
\* which constructs a handle and awaits the connection or health check
Begin(p, op) ==
  /\ proc[p].st = "idle"
  /\ started < MaxCalls
  /\ started' = started + 1
  /\ IF isConnected
       THEN /\ BeginExecute(p, op, transportType, httpClient, client, opened)
            /\ UNCHANGED <<client, httpClient, transportType, nextId, setups>>
       ELSE /\ transportType' = mcpTransport
            /\ IF mcpTransport = "http"
                 THEN httpClient' = nextId /\ client' = client
                 ELSE client' = nextId /\ httpClient' = httpClient
            /\ nextId' = nextId + 1
            /\ setups' = setups + 1
            /\ proc' = [proc EXCEPT ![p] =
                   [st |-> "connecting", op |-> op, own |-> nextId, h |-> 0,
                    live |-> FALSE]]
            /\ calls' = calls
  /\ UNCHANGED <<isConnected, failedSetups, opened, closing, disconnects,
                 mcpTransport, notGatewayVars>>

CallTool == \E p \in Callers : Begin(p, "callTool")

ListTools == \E p \in Callers : Begin(p, "listTools")

\* client.connect(transport) or the health check settled
ConnectSettled ==
  \E p \in Callers, ok \in BOOLEAN :
    /\ proc[p].st = "connecting"
    /\ IF ok
         THEN /\ isConnected' = TRUE
              /\ opened' = opened \cup {proc[p].own}
              /\ BeginExecute(p, proc[p].op, transportType, httpClient, client,
                              opened \cup {proc[p].own})
              /\ UNCHANGED failedSetups
         ELSE /\ failedSetups' = failedSetups + 1
              /\ Settle(p, "connect", FALSE)
              /\ UNCHANGED <<isConnected, opened>>
    /\ UNCHANGED <<client, httpClient, transportType, nextId, setups, started,
                   closing, disconnects, mcpTransport, notGatewayVars>>

\* the request sent over a handle settled
ExecuteSettled ==
  \E p \in Callers, r \in {"content", "serverError", "failed"} :
    /\ proc[p].st = "executing"
    /\ r # "failed" => proc[p].live
    /\ Settle(p, IF r = "failed" THEN "transport" ELSE "none", r = "serverError")
    /\ UNCHANGED <<isConnected, client, httpClient, transportType, nextId,
                   setups, failedSetups, opened, started, closing, disconnects,
                   mcpTransport, notGatewayVars>>

\* disconnect(): with a stdio client it awaits client.close() first
Disconnect ==
  /\ closing = 0
  /\ disconnects < MaxDisconnects
  /\ IF client # 0
       THEN /\ closing' = client
            /\ UNCHANGED <<isConnected, client, httpClient, disconnects>>
       ELSE /\ isConnected' = FALSE
            /\ client' = 0
            /\ httpClient' = 0
            /\ disconnects' = disconnects + 1
            /\ closing' = 0
  /\ UNCHANGED <<transportType, proc, nextId, setups, failedSetups, opened,
                 calls, started, mcpTransport, notGatewayVars>>

\* client.close() settled: the fields are reset
DisconnectSettled ==
  /\ closing # 0
  /\ isConnected' = FALSE
  /\ client' = 0
  /\ httpClient' = 0
  /\ opened' = opened \ {closing}
  /\ closing' = 0
  /\ disconnects' = disconnects + 1
  /\ UNCHANGED <<transportType, proc, nextId, setups, failedSetups, calls,
                 started, mcpTransport, notGatewayVars>>

GatewayNext ==
  \/ CallTool
  \/ ListTools
  \/ ConnectSettled
  \/ ExecuteSettled
  \/ Disconnect
  \/ DisconnectSettled

GatewaySpec == GatewayInit /\ [][GatewayNext]_vars

\* --------------------------------- initializeChromaDB, called concurrently
MaxInits == 3

InitsInFlight == Cardinality({p \in Callers : initProc[p].st # "idle"})

\* initializeChromaDB is entered: a non-null chromaClient is returned at
\* once, otherwise the call awaits import('chromadb')
initializeChromaDB ==
  \E p \in Callers :
    /\ initProc[p].st = "idle"
    /\ Len(inits) + InitsInFlight < MaxInits
    /\ IF chromaClient # 0
         THEN /\ inits' = Append(inits, [caller |-> p, threw |-> FALSE,
                                         got |-> chromaClient, own |-> 0])
              /\ UNCHANGED initProc
         ELSE /\ initProc' = [initProc EXCEPT ![p] = [st |-> "importing", own |-> 0]]
              /\ UNCHANGED inits
    /\ UNCHANGED <<chromaClient, constructed, heartbeats,
                   notStoreVars>>

\* the import settled: a ChromaClient is constructed and assigned to
\* chromaClient, and its heartbeat() is awaited; a failed import is thrown
\* as 'ChromaDB connection failed'
ImportSettled ==
  \E p \in Callers, ok \in BOOLEAN :
    /\ initProc[p].st = "importing"
    /\ IF ok
         THEN /\ chromaClient' = constructed + 1
              /\ constructed' = constructed + 1
              /\ heartbeats' = heartbeats + 1
              /\ initProc' = [initProc EXCEPT ![p] =
                     [st |-> "heartbeat", own |-> constructed + 1]]
              /\ UNCHANGED inits
         ELSE /\ inits' = Append(inits, [caller |-> p, threw |-> TRUE, got |-> 0,
                                         own |-> 0])
              /\ initProc' = [initProc EXCEPT ![p] = InitIdle]
              /\ UNCHANGED <<chromaClient, constructed, heartbeats>>
    /\ UNCHANGED <<notStoreVars>>

\* heartbeat() settled: the call returns what chromaClient holds by then,
\* or throws 'ChromaDB connection failed' leaving chromaClient assigned;
\* own is the client whose heartbeat this call awaited
HeartbeatSettled ==
  \E p \in Callers, ok \in BOOLEAN :
    /\ initProc[p].st = "heartbeat"
    /\ inits' = Append(inits, [caller |-> p, threw |-> ~ok,
                               got |-> IF ok THEN chromaClient ELSE 0,
                               own |-> initProc[p].own])
    /\ initProc' = [initProc EXCEPT ![p] = InitIdle]
    /\ UNCHANGED <<chromaClient, constructed, heartbeats,
                   notStoreVars>>

StoreInit ==
  /\ TurnInit
  /\ message = "m1"
  /\ routerIn = NoReply
  /\ routerOut = NoRouting
  /\ mcpTransport = "stdio"
  /\ GatewayNew
  /\ StoreNew
  /\ ChatNew
  /\ UnitsIdle
  /\ RetrievalIdle

StoreNext ==
  \/ initializeChromaDB
  \/ ImportSettled
  \/ HeartbeatSettled

StoreSpec == StoreInit /\ [][StoreNext]_vars

\* ----------------- the tool-calling variant: handleChatRequest and
\* ----------------- LLMService.generateResponse with a tool catalog
MaxToolCalls == 2

LastN(s, n) == IF Len(s) <= n THEN s ELSE SubSeq(s, Len(s) - n + 1, Len(s))

\* createMessages with a ragContext: the system prompt with the context
\* prompt, the last three non-user messages of the history, the message
createMessages(msg, hist, ragContext) ==
  <<Msg("system", "SYSTEM_PROMPT+ragContext", ragContext, "")>>
    \o LastN(SelectSeq(hist, LAMBDA m : m.role # "user"), 3)
    \o <<Msg("user", "text", <<>>, msg)>>

\* findRelevantContext: never throws, null documents filtered out
findRelevantContext(query, o) ==
  IF SearchFails(o) \/ o.kind = "noDocuments"
    THEN [threw |-> FALSE, query |-> query, results |-> <<>>]
  ELSE [threw |-> FALSE, query |-> query,
        results |-> SelectSeq(o.docs, LAMBDA doc : doc # "null")]

\* a frame's delta may carry content, tool_calls, or both
ToolCallDeltas == {<<>>, <<SpotifyTool>>, <<OtherTool>>}

ChatLines ==
  [k : {"delta"}, c : DeltaContents, tc : ToolCallDeltas]
  \cup [k : {"invalid", "other", "done"}, c : {<<>>}, tc : {<<>>}]

ChatDataEvents ==
  {ev \in UNION {[1..n -> ChatLines] : n \in 1..MaxLines} : Conforming(ev)}

RECURSIVE ToolCallsOf(_)
ToolCallsOf(ev) ==
  IF ev = <<>> \/ Head(ev).k = "done" THEN <<>>
  ELSE Head(ev).tc \o ToolCallsOf(Tail(ev))

\* the 'data' listener of handleStreamResponse, line by line
RECURSIVE handleStreamData(_, _)
handleStreamData(lines, st) ==
  IF lines = <<>> THEN st
  ELSE LET line == Head(lines) IN
    IF line.k = "done" THEN [st EXCEPT !.settled = TRUE]
    ELSE IF line.k = "delta"
      THEN LET st1 == [st EXCEPT !.toolCalls = @ \o line.tc] IN
           handleStreamData(Tail(lines),
             IF line.c # <<>>
               THEN [st1 EXCEPT !.fullContent = @ \o line.c,
                                !.chunks = Append(@, line.c)]
               ELSE st1)
      ELSE handleStreamData(Tail(lines), st)

ChatTurnInit ==
  /\ pc = "chatStart"
  /\ \E r \in Requests : message = r.message /\ history = r.conversationHistory
  /\ routing = NoDecision
  /\ tryFrame = "none"
  /\ flow = "none"
  /\ trace = <<>>
  /\ ended = FALSE
  /\ rejected = FALSE
  /\ failed = {}
  /\ words = <<>>
  /\ fullContent = <<>>
  /\ callChunks = <<>>
  /\ arrived = <<>>
  /\ genResult = Pending
  /\ searchOutcome = NoOutcome
  /\ searchResult = NoSearch
  /\ sent = <<>>
  /\ formatted = <<>>

ChatInit ==
  /\ ChatTurnInit
  /\ routerIn = NoReply
  /\ routerOut = NoRouting
  /\ mcpTransport = "stdio"
  /\ GatewayNew
  /\ StoreNew
  /\ ChatNew
  /\ UnitsIdle
  /\ RetrievalIdle

\* handleChatRequest up to its first await: findRelevantContext is called
handleChatRequest ==
  /\ pc = "chatStart"
  /\ pc' = "chatContext"
  /\ trace' = trace \o <<Entry("search", <<message>>)>>
  /\ UNCHANGED <<message, history, formatted, sent, routing, tryFrame, flow,
                 ended, rejected, failed, words, fullContent, callChunks,
                 arrived, genResult, searchResult, searchOutcome,
                 toolCalls, notChatVars>>

\* findRelevantContext returned: createMessages, then generateResponse
\* posts the conversation with the tool catalog
ChatContext ==
  /\ pc = "chatContext"
  /\ \E o \in SearchOutcomes :
       LET res == findRelevantContext(message, o) IN
       /\ searchOutcome' = o
       /\ searchResult' = res
       /\ failed' = IF SearchFails(o) THEN failed \cup {"search"} ELSE failed
       /\ sent' = Append(sent, createMessages(message, history, res.results))
  /\ trace' = trace \o <<Entry("generate", <<"chat">>)>>
  /\ pc' = "chatPost"
  /\ UNCHANGED <<message, history, formatted, routing, tryFrame, flow, ended,
                 rejected, words, fullContent, callChunks, arrived, genResult,
                 toolCalls, notChatVars>>

\* generateResponse threw or rejected: the catch of handleChatRequest
\* passes the fallback message to onChunk and the turn resolves
ChatFailed(err, by, tr) ==
  /\ genResult' = [status |-> "rejected", by |-> by, message |-> <<>>,
                   error |-> err]
  /\ failed' = failed \cup {"generator"}
  /\ trace' = tr \o <<Entry("chunk", <<streamingFailedGeneral>>)>>
  /\ pc' = "done"

ChatResolvedNotifiesLate(tr, by, content, tcs) ==
  /\ genResult' = [status |-> "resolved", by |-> by, message |-> content,
                   error |-> <<>>]
  /\ IF tcs # <<>>
       THEN /\ trace' = tr \o <<Entry("callTool", <<tcs[1]>>),
                                Entry("tools_starting", <<tcs[1]>>)>>
            /\ pc' = "chatTool"
       ELSE /\ trace' = tr
            /\ pc' = "done"

\* generateResponse resolved: with a tool call handleToolCall runs up to its
\* await (the notification, then createDirectResponse calls the tool)
ChatResolved(tr, by, content, tcs) ==
  /\ genResult' = [status |-> "resolved", by |-> by, message |-> content,
                   error |-> <<>>]
  /\ IF tcs # <<>>
       THEN /\ trace' = tr \o <<Entry("tools_starting", <<tcs[1]>>),
                                Entry("callTool", <<tcs[1]>>)>>
            /\ pc' = "chatTool"
       ELSE /\ trace' = tr
            /\ pc' = "done"

\* the failed tool-calling requests: the body's error message is read
\* whatever the status; 0 stands for an error without a response
ChatFailures ==
  {f \in [status : HttpErrors, body : ErrorBodies] :
     f.status = 0 => f.body = NoBody}

axiosMessage == "Request failed"
toolCallingFailed == "Tool calling failed: "

\* createToolCallingError for an axios error
createToolCallingError(status, body) ==
  <<toolCallingFailed, IF body = NoBody THEN axiosMessage ELSE body>>

\* the post of generateResponse settled
ChatPost ==
  /\ pc = "chatPost"
  /\ \E r \in {[status |-> 200, body |-> NoBody]} \cup ChatFailures :
       IF r.status = 200
         THEN /\ pc' = "chatStreaming"
              /\ UNCHANGED <<trace, failed, genResult>>
         ELSE ChatFailed(createToolCallingError(r.status, r.body),
                         IF r.status = 0 THEN "noResponse" ELSE ToString(r.status),
                         trace)
  /\ UNCHANGED <<message, history, formatted, sent, routing, tryFrame, flow,
                 ended, rejected, words, fullContent, callChunks, arrived,
                 searchResult, searchOutcome, toolCalls, notChatVars>>

\* a 'data' event of the tool-calling stream
ChatOnData ==
  /\ pc = "chatStreaming"
  /\ \E ev \in ChatDataEvents :
       LET st == handleStreamData(ev, [fullContent |-> fullContent, chunks |-> <<>>,
                                       toolCalls |-> toolCalls, settled |-> FALSE])
           tr == trace \o [i \in 1..Len(st.chunks) |-> Entry("chunk", st.chunks[i])]
       IN
       /\ Len(arrived) + Len(DeltasOf(ev)) <= MaxDeltas
       /\ Len(toolCalls) + Len(ToolCallsOf(ev)) <= MaxToolCalls
       /\ arrived' = arrived \o DeltasOf(ev)
       /\ fullContent' = st.fullContent
       /\ callChunks' = callChunks \o st.chunks
       /\ toolCalls' = st.toolCalls
       /\ IF st.settled
            THEN ChatResolved(tr, "marker", st.fullContent, st.toolCalls)
            ELSE /\ trace' = tr
                 /\ UNCHANGED <<pc, genResult>>
  /\ UNCHANGED <<message, history, formatted, sent, routing, tryFrame, flow,
                 ended, rejected, failed, words, searchResult, searchOutcome,
                 notChatVars>>

\* the stream's 'error' event: the promise rejects with 'Streaming failed'
ChatOnError ==
  /\ pc = "chatStreaming"
  /\ ChatFailed(<<streamingFailed>>, "streamError", trace)
  /\ UNCHANGED <<message, history, formatted, sent, routing, tryFrame, flow,
                 ended, rejected, words, fullContent, callChunks, arrived,
                 searchResult, searchOutcome, toolCalls, notChatVars>>

\* the stream's 'end' event without a marker before it
ChatOnEnd ==
  /\ pc = "chatStreaming"
  /\ ChatResolved(trace, "end", fullContent, toolCalls)
  /\ UNCHANGED <<message, history, formatted, sent, routing, tryFrame, flow,
                 ended, rejected, failed, words, fullContent, callChunks,
                 arrived, searchResult, searchOutcome, toolCalls, notChatVars>>

\* handleToolCall after createDirectResponse settled: a failure passes the
\* fallback message to onChunk, otherwise the formatted text is streamed
\* one character at a time
handleToolCall ==
  /\ pc = "chatTool"
  /\ \E o \in CallToolOutcomes, text \in FormattedTexts :
       /\ failed' = IF ToolFails(o) THEN failed \cup {"tool"} ELSE failed
       /\ IF o = "threw" \/ determineService(toolCalls[1]) = "unknown"
            THEN /\ trace' = trace \o <<Entry("chunk", <<streamingFailedGeneral>>)>>
                 /\ pc' = "done"
                 /\ UNCHANGED <<words, formatted>>
            ELSE /\ formatted' = IF o = "content" THEN text ELSE noTrack
                 /\ words' = [i \in 1..Len(formatted') |-> <<formatted'[i]>>]
                 /\ pc' = "chatChars"
                 /\ UNCHANGED trace
  /\ UNCHANGED <<message, history, sent, routing, tryFrame, flow, ended,
                 rejected, fullContent, callChunks, arrived, genResult,
                 searchResult, searchOutcome, toolCalls, notChatVars>>

\* one turn of streamResponse's loop: onChunk(char), then the 1 ms pause;
\* after the last character the turn resolves
streamResponse ==
  /\ pc = "chatChars"
  /\ IF words # <<>>
       THEN /\ trace' = trace \o <<Entry("chunk", Head(words))>>
            /\ words' = Tail(words)
            /\ pc' = pc
       ELSE /\ pc' = "done"
            /\ UNCHANGED <<trace, words>>
  /\ UNCHANGED <<message, history, formatted, sent, routing, tryFrame, flow,
                 ended, rejected, failed, fullContent, callChunks, arrived,
                 genResult, searchResult, searchOutcome, toolCalls, notChatVars>>

ChatNext ==
  \/ handleChatRequest
  \/ ChatContext
  \/ ChatPost
  \/ ChatOnData
  \/ ChatOnError
  \/ ChatOnEnd
  \/ handleToolCall
  \/ streamResponse

ChatSpec == ChatInit /\ [][ChatNext]_vars

\* a chat turn of either Orchestrator variant
TurnsInit == Init \/ ChatInit

TurnsNext == Next \/ ChatNext

TurnsSpec == TurnsInit /\ [][TurnsNext]_vars

\* ------------------------------------------- RAGService.retrieveContext
\* A passage's content is modelled by its length in characters; distances
\* are in hundredths.

\* const maxTotalLength = 10000
maxTotalLength == 10000

\* sortedResults.slice(0, 3)
topRelevantCount == 3

\* searchSimilarContent(message, 20) and sortedResults.slice(20)
nResults == 20

\* '\n\n---\n\n'.length
separatorLength == 7

\* metadata.chunkIndex / totalChunks when the passage is not a chunk
NotANumber == -1

ContentLengths == {2500, 5000}
Distances == {0, 20}
Metadatas ==
  { [source |-> "", section |-> "",
     chunkIndex |-> NotANumber, totalChunks |-> NotANumber],
    [source |-> "bio.md", section |-> "Intro",
     chunkIndex |-> NotANumber, totalChunks |-> NotANumber],
    [source |-> "bio.md", section |-> "Intro",
     chunkIndex |-> 0, totalChunks |-> 2] }

SearchResults == [content : ContentLengths, distance : Distances,
                  metadata : Metadatas]

MinOf(a, b) == IF a <= b THEN a ELSE b

SearchResultLists ==
  UNION {[1..n -> SearchResults] : n \in 0..MinOf(MaxPassages, nResults)}

\* the results as objects: includes() compares identities, not contents
WithIds(results) ==
  [i \in 1..Len(results) |->
     [id |-> i, content |-> results[i].content,
      distance |-> results[i].distance, metadata |-> results[i].metadata]]

\* (a.distance || 1): a distance of 0 is falsy
sortKey(r) == IF r.distance = 0 THEN 100 ELSE r.distance

RECURSIVE insertSorted(_, _)
insertSorted(sorted, r) ==
  IF sorted = <<>> THEN <<r>>
  ELSE IF sortKey(Head(sorted)) <= sortKey(r)
       THEN <<Head(sorted)>> \o insertSorted(Tail(sorted), r)
       ELSE <<r>> \o sorted

\* Array.prototype.sort is stable
RECURSIVE sortResults(_)
sortResults(results) ==
  IF results = <<>> THEN <<>>
  ELSE insertSorted(sortResults(SubSeq(results, 1, Len(results) - 1)),
                    results[Len(results)])

slice(seq, from) == SubSeq(seq, from + 1, Len(seq))

\* for (const result of topRelevant)
RECURSIVE selectTop(_, _)
selectTop(rs, acc) ==
  IF rs = <<>> THEN acc
  ELSE IF acc.totalLength + Head(rs).content > maxTotalLength THEN acc
       ELSE selectTop(Tail(rs),
              [acc EXCEPT !.selectedChunks = Append(@, Head(rs)),
                          !.totalLength = @ + Head(rs).content])

\* the first loop over remainingChunks: passages of a new source or section
RECURSIVE selectDiverse(_, _)
selectDiverse(rs, acc) ==
  IF rs = <<>> THEN acc
  ELSE LET result == Head(rs)
           source == result.metadata.source
           section == result.metadata.section
           isNewSource == source # "" /\ source \notin acc.usedSources
           isNewSection == section # "" /\ section \notin acc.usedSections
       IN IF acc.totalLength + result.content > maxTotalLength THEN acc
          ELSE IF isNewSource \/ isNewSection
               THEN selectDiverse(Tail(rs),
                      [selectedChunks |-> Append(acc.selectedChunks, result),
                       totalLength |-> acc.totalLength + result.content,
                       usedSources |-> acc.usedSources \cup
                          (IF source # "" THEN {source} ELSE {}),
                       usedSections |-> acc.usedSections \cup
                          (IF section # "" THEN {section} ELSE {})])
               ELSE selectDiverse(Tail(rs), acc)

\* the second loop over remainingChunks: whatever still fits
RECURSIVE selectRest(_, _)
selectRest(rs, acc) ==
  IF rs = <<>> THEN acc
  ELSE IF acc.totalLength + Head(rs).content > maxTotalLength THEN acc
       ELSE IF \A i \in DOMAIN acc.selectedChunks :
                 acc.selectedChunks[i].id # Head(rs).id
            THEN selectRest(Tail(rs),
                   [acc EXCEPT !.selectedChunks = Append(@, Head(rs)),
                               !.totalLength = @ + Head(rs).content])
            ELSE selectRest(Tail(rs), acc)

\* String(n).length
Digits(n) == IF n < 10 THEN 1 ELSE IF n < 100 THEN 2 ELSE 3

\* `[From ${source} - ${section}` + ` (chunk ${i + 1} of ${n})` + ']\n'
headerLength(result) ==
  LET m == result.metadata
  IN IF m.source # "" /\ m.section # ""
     THEN Len("[From ") + Len(m.source) + Len(" - ") + Len(m.section)
          + (IF m.chunkIndex # NotANumber /\ m.totalChunks # NotANumber
             THEN Len(" (chunk ") + Digits(m.chunkIndex + 1) + Len(" of ")
                  + Digits(m.totalChunks) + Len(")")
             ELSE 0)
          + 2
     ELSE 0

RECURSIVE joinedLength(_)
joinedLength(chunks) ==
  IF chunks = <<>> THEN 0
  ELSE headerLength(Head(chunks)) + Head(chunks).content
       + (IF Tail(chunks) = <<>> THEN 0
          ELSE separatorLength + joinedLength(Tail(chunks)))

retrieveContext(results) ==
  IF Len(results) = 0
  THEN [done |-> TRUE, isNull |-> TRUE, selectedChunks |-> <<>>,
        counted |-> 0, length |-> 0]
  ELSE LET sortedResults == sortResults(WithIds(results))
           topRelevant == SubSeq(sortedResults, 1,
                            MinOf(topRelevantCount, Len(sortedResults)))
           top == selectTop(topRelevant,
                    [selectedChunks |-> <<>>, totalLength |-> 0])
           remainingChunks == slice(sortedResults, nResults)
           diverse == selectDiverse(remainingChunks,
                        [selectedChunks |-> top.selectedChunks,
                         totalLength |-> top.totalLength,
                         usedSources |->
                           {top.selectedChunks[i].metadata.source :
                              i \in DOMAIN top.selectedChunks},
                         usedSections |->
                           {top.selectedChunks[i].metadata.section :
                              i \in DOMAIN top.selectedChunks}])
           all == selectRest(remainingChunks,
                    [selectedChunks |-> diverse.selectedChunks,
                     totalLength |-> diverse.totalLength])
       IN [done |-> TRUE, isNull |-> FALSE,
           selectedChunks |-> all.selectedChunks,
           counted |-> all.totalLength,
           length |-> joinedLength(all.selectedChunks)]

ContextInit ==
  /\ TurnInit
  /\ message = "m1"
  /\ routerIn = NoReply
  /\ routerOut = NoRouting
  /\ mcpTransport = "stdio"
  /\ GatewayNew
  /\ StoreNew
  /\ ChatNew
  /\ UnitsIdle
  /\ ctxIn \in SearchResultLists
  /\ ctxOut = NotRun
  /\ rankIn = NotRun
  /\ rankOut = NotRun
  /\ intentIn = NotRun
  /\ strategyOut = NotRun

RetrieveContext ==
  /\ ~ctxOut.done
  /\ ctxOut' = retrieveContext(ctxIn)
  /\ UNCHANGED <<ctxIn, rankIn, rankOut, intentIn, strategyOut>>
  /\ UNCHANGED notRetrievalVars

ContextNext == RetrieveContext

ContextSpec == ContextInit /\ [][ContextNext]_vars

\* ---------------------------------------------------- DocumentProcessor
\* Scores and cutoffs are in units of 0.0001.

\* Math.round(x * 1000) / 1000, in units of 0.0001
roundTo3(x) == ((x + 5) \div 10) * 10

\* chromaResults.documents[0] and chromaResults.metadatas[0]
chromaDocuments == <<"text 0", "text 1">>
chromaMetadatas == <<[source |-> "source 0"], [source |-> "source 1"]>>

RelevanceScores == {9000, 6996, 6500, 3000}
RetrievalCutoffs == {0, 6500, 7000}

RerankResult == [index : 0..(Len(chromaDocuments) - 1),
                 relevance_score : RelevanceScores]

RerankResults == UNION {[1..n -> RerankResult] : n \in 0..MaxRanked}

createRankedDocuments(cohereResults, documents, metadatas) ==
  [i \in 1..Len(cohereResults) |->
     [text |-> documents[cohereResults[i].index + 1],
      source |-> metadatas[cohereResults[i].index + 1].source,
      relevance |-> roundTo3(cohereResults[i].relevance_score)]]

filterBelowCutoff(retrievalCutoff, rankedDocuments) ==
  LET below(document) == document.relevance <= retrievalCutoff
  IN SelectSeq(rankedDocuments, below)

filterDocumentsByRelevance(retrievalCutoff, rankedDocuments) ==
  LET kept(document) == document.relevance >= retrievalCutoff
  IN SelectSeq(rankedDocuments, kept)

FilterInit ==
  /\ TurnInit
  /\ message = "m1"
  /\ routerIn = NoReply
  /\ routerOut = NoRouting
  /\ mcpTransport = "stdio"
  /\ GatewayNew
  /\ StoreNew
  /\ ChatNew
  /\ UnitsIdle
  /\ ctxIn = <<>>
  /\ ctxOut = NotRun
  /\ \E rs \in RerankResults, c1, c2 \in RetrievalCutoffs :
       /\ c1 < c2
       /\ rankIn = [done |-> TRUE, results |-> rs, low |-> c1, high |-> c2]
  /\ rankOut = NotRun
  /\ intentIn = NotRun
  /\ strategyOut = NotRun

\* generateContext: the rerank results joined with the chroma results
CreateRankedDocuments ==
  /\ rankOut = NotRun
  /\ rankOut' = [done |-> FALSE,
                 rankedDocuments |->
                   createRankedDocuments(rankIn.results, chromaDocuments,
                                         chromaMetadatas)]
  /\ UNCHANGED <<ctxIn, ctxOut, rankIn, intentIn, strategyOut>>
  /\ UNCHANGED notRetrievalVars

\* generateContext: the ranked documents filtered, under each of the cutoffs
FilterDocuments ==
  /\ rankOut # NotRun
  /\ ~rankOut.done
  /\ rankOut' =
       [done |-> TRUE,
        rankedDocuments |-> rankOut.rankedDocuments,
        low |-> filterDocumentsByRelevance(rankIn.low,
                                           rankOut.rankedDocuments),
        high |-> filterDocumentsByRelevance(rankIn.high,
                                            rankOut.rankedDocuments)]
  /\ UNCHANGED <<ctxIn, ctxOut, rankIn, intentIn, strategyOut>>
  /\ UNCHANGED notRetrievalVars

FilterNext ==
  \/ CreateRankedDocuments
  \/ FilterDocuments

FilterSpec == FilterInit /\ [][FilterNext]_vars

\* ------------------------------- RAGService: classifyQuery and the strategy
\* Cosine scores and cutoffs are in units of 0.0001.

\* Math.round(x * 100) / 100, in units of 0.0001
roundTo2(x) == ((x + 50) \div 100) * 100

\* let bestScore = -Infinity: below every cosine, and its own rounding
MinusInfinity == -1000000

\* if (score >= 0.6) and if (score >= 0.4)
strongThreshold == 6000
middleThreshold == 4000

\* retrievalCutoff: 0.7 of the middle match
middleCutoff == 7000

Intents == {"resume", "projects", "personal"}
CosineScores == {-1000, 3000, 3960, 4000, 5970, 6000}

\* Object.entries(intentEmbeddings), each vector given by its cosine
\* similarity to the query: the keys of an object are distinct
IntentTables ==
  {t \in UNION {[1..n -> [intent : Intents, cosine : CosineScores]] :
                  n \in 0..MaxIntents} :
     \A i, j \in DOMAIN t : i # j => t[i].intent # t[j].intent}

\* getEnv(): the RETRIEVAL_* settings
Envs ==
  { [RETRIEVAL_STRONG_CUTOFF |-> 3000, RETRIEVAL_STRONG_TOP_K |-> 5,
     RETRIEVAL_MIDDLE_CUTOFF |-> 5000, RETRIEVAL_MIDDLE_TOP_K |-> 10,
     RETRIEVAL_WEAK_CUTOFF |-> 8000, RETRIEVAL_WEAK_TOP_K |-> 20],
    [RETRIEVAL_STRONG_CUTOFF |-> 2000, RETRIEVAL_STRONG_TOP_K |-> 3,
     RETRIEVAL_MIDDLE_CUTOFF |-> 7000, RETRIEVAL_MIDDLE_TOP_K |-> 6,
     RETRIEVAL_WEAK_CUTOFF |-> 9000, RETRIEVAL_WEAK_TOP_K |-> 12] }

\* metadata: null
NoMetadata == [source |-> ""]

RECURSIVE bestOf(_, _)
bestOf(entries, best) ==
  IF entries = <<>> THEN best
  ELSE bestOf(Tail(entries),
              IF Head(entries).cosine > best.bestScore
              THEN [bestIntent |-> Head(entries).intent,
                    bestScore |-> Head(entries).cosine]
              ELSE best)

RECURSIVE bestOfLastSeen(_, _)
bestOfLastSeen(entries, best) ==
  IF entries = <<>> THEN best
  ELSE bestOfLastSeen(Tail(entries),
              IF Head(entries).cosine >= best.bestScore
              THEN [bestIntent |-> Head(entries).intent,
                    bestScore |-> Head(entries).cosine]
              ELSE best)

classifyQueryLastSeen(intentEmbeddings) ==
  LET best == bestOfLastSeen(intentEmbeddings,
                     [bestIntent |-> "unknown", bestScore |-> MinusInfinity])
  IN [bestIntent |-> best.bestIntent,
      bestScore |-> IF best.bestScore = MinusInfinity THEN MinusInfinity
                    ELSE roundTo2(best.bestScore)]

classifyQuery(intentEmbeddings) ==
  LET best == bestOf(intentEmbeddings,
                     [bestIntent |-> "unknown", bestScore |-> MinusInfinity])
  IN [bestIntent |-> best.bestIntent,
      bestScore |-> IF best.bestScore = MinusInfinity THEN MinusInfinity
                    ELSE roundTo2(best.bestScore)]

decideRetrievalStrategy(intent, score, env) ==
  IF score >= strongThreshold
  THEN [logged |-> "Strong match",
        retrievalCutoff |-> IF intent = "resume" THEN 0
                            ELSE env.RETRIEVAL_STRONG_CUTOFF,
        metadata |-> [source |-> intent],
        top_k |-> env.RETRIEVAL_STRONG_TOP_K]
  ELSE IF score >= middleThreshold
       THEN [logged |-> "Middle match",
             retrievalCutoff |-> middleCutoff,
             metadata |-> NoMetadata,
             top_k |-> env.RETRIEVAL_MIDDLE_TOP_K]
       ELSE [logged |-> "Uncertain match",
             retrievalCutoff |-> env.RETRIEVAL_WEAK_CUTOFF,
             metadata |-> NoMetadata,
             top_k |-> env.RETRIEVAL_WEAK_TOP_K]

\* the arguments queryChroma hands to collection.query
queryChroma(retrievalStrategy) ==
  [where |-> retrievalStrategy.metadata, nResults |-> retrievalStrategy.top_k]

StrategyInit ==
  /\ TurnInit
  /\ message = "m1"
  /\ routerIn = NoReply
  /\ routerOut = NoRouting
  /\ mcpTransport = "stdio"
  /\ GatewayNew
  /\ StoreNew
  /\ ChatNew
  /\ UnitsIdle
  /\ ctxIn = <<>>
  /\ ctxOut = NotRun
  /\ rankIn = NotRun
  /\ rankOut = NotRun
  /\ \E t \in IntentTables, e \in Envs :
       intentIn = [done |-> TRUE, intentEmbeddings |-> t, env |-> e]
  /\ strategyOut = [done |-> FALSE, step |-> "classify"]

ClassifyQuery ==
  /\ strategyOut.step = "classify"
  /\ strategyOut' = [done |-> FALSE, step |-> "decide",
                     classified |-> classifyQuery(intentIn.intentEmbeddings)]
  /\ UNCHANGED <<ctxIn, ctxOut, rankIn, rankOut, intentIn>>
  /\ UNCHANGED notRetrievalVars

DecideRetrievalStrategy ==
  /\ strategyOut.step = "decide"
  /\ strategyOut' =
       [done |-> FALSE, step |-> "query",
        classified |-> strategyOut.classified,
        retrievalStrategy |->
          decideRetrievalStrategy(strategyOut.classified.bestIntent,
                                  strategyOut.classified.bestScore,
                                  intentIn.env)]
  /\ UNCHANGED <<ctxIn, ctxOut, rankIn, rankOut, intentIn>>
  /\ UNCHANGED notRetrievalVars

QueryChroma ==
  /\ strategyOut.step = "query"
  /\ strategyOut' =
       [done |-> TRUE, step |-> "queried",
        classified |-> strategyOut.classified,
        retrievalStrategy |-> strategyOut.retrievalStrategy,
        query |-> queryChroma(strategyOut.retrievalStrategy)]
  /\ UNCHANGED <<ctxIn, ctxOut, rankIn, rankOut, intentIn>>
  /\ UNCHANGED notRetrievalVars

StrategyNext ==
  \/ ClassifyQuery
  \/ DecideRetrievalStrategy
  \/ QueryChroma

StrategySpec == StrategyInit /\ [][StrategyNext]_vars

\* ------------------- MCPClientService.callTool: response normalisation
\* A raw JavaScript value: its type and what it holds.

Undefined == [type |-> "undefined"]
Null == [type |-> "null"]
Str(s) == [type |-> "string", string |-> s]
Num(n) == [type |-> "number", number |-> n]
Bool(b) == [type |-> "boolean", boolean |-> b]
Arr(items) == [type |-> "array", items |-> items]

\* a content item, and a content item sent on its own instead of in an array
TextItem(t) == [type |-> "text", text |-> t]
ContentItems == {TextItem("a"), TextItem("b"),
                 [type |-> "image", text |-> ""]}
ItemObject(item) == [type |-> "object", item |-> item]

RawContents ==
  {Undefined, Null, Str(""), Str("plain"), Num(0), Num(7),
   Bool(FALSE), Bool(TRUE), ItemObject(TextItem("a"))}
  \cup {Arr(items) : items \in
          UNION {[1..n -> ContentItems] : n \in 0..MaxItems}}

RawFlags == {Undefined, Bool(TRUE), Bool(FALSE), Num(1)}

\* what executeToolCall gives back: it throws, or the transport's result,
\* which over http is data.result, undefined when the reply holds none
ToolResponses ==
  {[threw |-> TRUE], [threw |-> FALSE, result |-> Undefined]}
  \cup {[threw |-> FALSE,
         result |-> [type |-> "object", content |-> c, isError |-> f]] :
          c \in RawContents, f \in RawFlags}

\* if (value), Boolean(value)
Truthy(v) ==
  CASE v.type = "undefined" -> FALSE
    [] v.type = "null" -> FALSE
    [] v.type = "string" -> v.string # ""
    [] v.type = "number" -> v.number # 0
    [] v.type = "boolean" -> v.boolean
    [] OTHER -> TRUE

\* String(value)
StringOf(v) ==
  CASE v.type = "string" -> v.string
    [] v.type = "number" -> ToString(v.number)
    [] v.type = "boolean" -> IF v.boolean THEN "true" ELSE "false"
    [] v.type = "undefined" -> "undefined"
    [] v.type = "null" -> "null"
    [] OTHER -> "[object Object]"

normalizeResponseContent(responseContent) ==
  IF responseContent.type = "array" THEN responseContent.items
  ELSE IF Truthy(responseContent)
       THEN <<TextItem(StringOf(responseContent))>>
       ELSE <<>>

\* callTool from its try on: reading .content of an undefined response
\* throws inside the try, like executeToolCall itself
callTool(response) ==
  IF response.threw \/ response.result = Undefined
  THEN [content |-> <<TextItem("Tool execution failed")>>, isError |-> TRUE]
  ELSE [content |-> normalizeResponseContent(response.result.content),
        isError |-> Truthy(response.result.isError)]

NormalizeInit ==
  /\ TurnInit
  /\ message = "m1"
  /\ routerIn = NoReply
  /\ routerOut = NoRouting
  /\ mcpTransport = "stdio"
  /\ GatewayNew
  /\ StoreNew
  /\ ChatNew
  /\ \E r \in ToolResponses : toolResponse = [done |-> FALSE, response |-> r]
  /\ formatterRun = NotRun
  /\ contextRun = NotRun
  /\ framing = NotRun
  /\ OtherUnitsIdle
  /\ RetrievalIdle

CallToolReturns ==
  /\ toolResponse # NotRun
  /\ ~toolResponse.done
  /\ toolResponse' = [done |-> TRUE, response |-> toolResponse.response,
                      returned |-> callTool(toolResponse.response)]
  /\ UNCHANGED <<formatterRun, contextRun, framing, otherUnits>>
  /\ UNCHANGED notUnitVars

NormalizeNext == CallToolReturns

NormalizeSpec == NormalizeInit /\ [][NormalizeNext]_vars

\* ------------------------- MCPResponseService: the registered formatters

Services == {"spotify", "github", "blog", "project"}

\* formatted when the result is missing, error-flagged or without content
noDataFormatted(service) ==
  CASE service = "spotify" ->
         "I'm not currently listening to anything on Spotify."
    [] service = "github" ->
         "I'm having trouble accessing my GitHub activity right now."
    [] service = "blog" ->
         "I'm having trouble accessing my blog posts right now."
    [] service = "project" -> "No project info available."

\* formatted by the catch around JSON.parse and the rendering
parsingFailedFormatted(service) ==
  CASE service = "spotify" ->
         "I'm having trouble getting my current Spotify track."
    [] service = "github" ->
         "I'm having trouble accessing my GitHub activity right now."
    [] service = "blog" ->
         "I'm having trouble accessing my blog posts right now."
    [] service = "project" -> "Error parsing project info."

\* formatXResponse(data) when the payload lacks the fields it renders
incompleteFormatted(service) ==
  CASE service = "spotify" ->
         "I'm not currently listening to anything on Spotify."
    [] service = "github" ->
         "I'm having trouble accessing my GitHub profile."
    [] service = "blog" ->
         "I don't have any recent blog posts to share right now."
    [] service = "project" -> ""

\* formatXResponse(data) of a payload holding every field
renderedFormatted(service) ==
  CASE service = "spotify" -> "About ... I listened to: [track by artist](url)"
    [] service = "github" -> "So far I've made N contributions ..."
    [] service = "blog" -> "About ... I wrote a post titled: [title](url)"
    [] service = "project" -> "# name ... # Repo ..."

\* the `error` field of a payload: absent, or a string
NoErrorField == "<absent>"
ToolErrorText == "error text of the tool"
ErrorFields == {NoErrorField, "", ToolErrorText}

\* the text of a content item by what JSON.parse makes of it
PayloadTexts ==
  {[json |-> "invalid"], [json |-> "null"]}
  \cup {[json |-> "object", error |-> e, complete |-> c] :
          e \in ErrorFields, c \in BOOLEAN}

\* content items: with a text, without one (text undefined), or null
FormatterItems ==
  {[item |-> "text", text |-> t] : t \in PayloadTexts}
  \cup {[item |-> "noText"], [item |-> "null"]}

FormatterResults ==
  [isError : BOOLEAN,
   content : UNION {[1..n -> FormatterItems] : n \in 0..MaxItems}]

\* the list format() is given: one result per tool called, or none
FormatterInputs == {<<>>} \cup {<<r>> : r \in FormatterResults}

Formatted(data, text) ==
  [threw |-> FALSE, data |-> data, formatted |-> text]

\* the body of the formatter's try block
formatTry(service, firstContent) ==
  IF firstContent.item = "null"
  THEN Formatted("No content in response", noDataFormatted(service))
  ELSE IF firstContent.item = "noText" \/ firstContent.text.json = "invalid"
       THEN [threw |-> TRUE]    \* JSON.parse throws a SyntaxError
  ELSE IF firstContent.text.json = "null"
       THEN [threw |-> TRUE]    \* null.error throws a TypeError
  ELSE IF firstContent.text.error \notin {NoErrorField, ""}
       THEN Formatted(firstContent.text.error, firstContent.text.error)
  ELSE Formatted("data",
                 IF firstContent.text.complete
                 THEN renderedFormatted(service)
                 ELSE incompleteFormatted(service))

formatUncaught(service, results) ==
  IF results = <<>> \/ results[1].isError \/ Len(results[1].content) = 0
  THEN Formatted("No data available at the moment.", noDataFormatted(service))
  ELSE formatTry(service, results[1].content[1])

\* formatter.format(results)
format(service, results) ==
  IF results = <<>> \/ results[1].isError \/ Len(results[1].content) = 0
  THEN Formatted("No data available at the moment.", noDataFormatted(service))
  ELSE LET tried == formatTry(service, results[1].content[1])
       IN IF tried.threw
          THEN Formatted("Failed to parse response data",
                         parsingFailedFormatted(service))
          ELSE tried

FormatterInit ==
  /\ TurnInit
  /\ message = "m1"
  /\ routerIn = NoReply
  /\ routerOut = NoRouting
  /\ mcpTransport = "stdio"
  /\ GatewayNew
  /\ StoreNew
  /\ ChatNew
  /\ toolResponse = NotRun
  /\ \E s \in Services, rs \in FormatterInputs :
       formatterRun = [done |-> FALSE, service |-> s, results |-> rs]
  /\ contextRun = NotRun
  /\ framing = NotRun
  /\ OtherUnitsIdle
  /\ RetrievalIdle

FormatResults ==
  /\ formatterRun # NotRun
  /\ ~formatterRun.done
  /\ formatterRun' =
       [done |-> TRUE, service |-> formatterRun.service,
        results |-> formatterRun.results,
        returned |-> format(formatterRun.service, formatterRun.results)]
  /\ UNCHANGED <<toolResponse, contextRun, framing, otherUnits>>
  /\ UNCHANGED notUnitVars

FormatterNext == FormatResults

FormatterSpec == FormatterInit /\ [][FormatterNext]_vars

\* ------------------------------------------- RAGService.generateContext

\* generateEmbedding([query]): the embedding, or the provider's failure
EmbeddingOutcomes == {"embedding", "fails"}

\* loadIntentEmbeddings: the table, or readFile / JSON.parse throwing, which
\* its catch logs and throws again
LoadOutcomes == {"table", "missing", "unreadable"}

\* collection.query: documents, none, or a failure
ChromaOutcomes == {"documents", "none", "fails"}

\* documentProcessor.convertToChatMessages
convertToChatMessages(documents) ==
  [i \in 1..Len(documents) |->
     [role |-> "system", source |-> documents[i].source,
      relevance |-> documents[i].relevance, text |-> documents[i].text]]

GenerateContextInit ==
  /\ TurnInit
  /\ message = "m1"
  /\ routerIn = NoReply
  /\ routerOut = NoRouting
  /\ mcpTransport = "stdio"
  /\ GatewayNew
  /\ StoreNew
  /\ ChatNew
  /\ toolResponse = NotRun
  /\ formatterRun = NotRun
  /\ \E t \in IntentTables, e \in Envs :
       contextRun = [done |-> FALSE, step |-> "start", threw |-> "",
                     intentEmbeddings |-> t, env |-> e]
  /\ framing = NotRun
  /\ OtherUnitsIdle
  /\ RetrievalIdle

\* the call ends by throwing what the failed step threw
ContextThrew(cause) ==
  [done |-> TRUE, step |-> "threw", threw |-> cause,
   intentEmbeddings |-> contextRun.intentEmbeddings, env |-> contextRun.env]

ContextReturned(messages) ==
  [done |-> TRUE, step |-> "returned", threw |-> "", returned |-> messages,
   intentEmbeddings |-> contextRun.intentEmbeddings, env |-> contextRun.env]

\* await Promise.all([generateEmbedding, loadIntentEmbeddings]), then
\* classifyQuery and decideRetrievalStrategy
AwaitEmbeddings ==
  /\ contextRun # NotRun
  /\ contextRun.step = "start"
  /\ \E e \in EmbeddingOutcomes, l \in LoadOutcomes :
       contextRun' =
         IF e = "fails" THEN ContextThrew("embedding")
         ELSE IF l # "table" THEN ContextThrew("intentEmbeddings")
         ELSE LET c == classifyQuery(contextRun.intentEmbeddings)
              IN [done |-> FALSE, step |-> "query", threw |-> "",
                  intentEmbeddings |-> contextRun.intentEmbeddings,
                  env |-> contextRun.env,
                  retrievalStrategy |->
                    decideRetrievalStrategy(c.bestIntent, c.bestScore,
                                            contextRun.env)]
  /\ UNCHANGED <<toolResponse, formatterRun, framing, otherUnits>>
  /\ UNCHANGED notUnitVars

\* queryChroma: null when no document came back
AwaitChroma ==
  /\ contextRun # NotRun
  /\ contextRun.step = "query"
  /\ \E q \in ChromaOutcomes :
       contextRun' =
         IF q = "fails" THEN ContextThrew("chroma")
         ELSE IF q = "none" THEN ContextReturned(<<>>)
         ELSE [contextRun EXCEPT !.step = "rerank"]
  /\ UNCHANGED <<toolResponse, formatterRun, framing, otherUnits>>
  /\ UNCHANGED notUnitVars

\* getRerankResults, createRankedDocuments, filterDocumentsByRelevance and
\* convertToChatMessages
AwaitRerank ==
  /\ contextRun # NotRun
  /\ contextRun.step = "rerank"
  /\ \/ contextRun' = ContextThrew("rerank")
     \/ \E rs \in RerankResults :
          contextRun' =
            ContextReturned(convertToChatMessages(
              filterDocumentsByRelevance(
                contextRun.retrievalStrategy.retrievalCutoff,
                createRankedDocuments(rs, chromaDocuments,
                                      chromaMetadatas))))
  /\ UNCHANGED <<toolResponse, formatterRun, framing, otherUnits>>
  /\ UNCHANGED notUnitVars

GenerateContextNext ==
  \/ AwaitEmbeddings
  \/ AwaitChroma
  \/ AwaitRerank

GenerateContextSpec == GenerateContextInit /\ [][GenerateContextNext]_vars

\* ------------------------ the router on replies of any decision shape
\* JSON objects the backend can reply with that are no SmartRoutingDecision:
\* here the confidence is 7.0 or -0.5, outside [0, 1]
MalformedDecisions ==
  [useRAG : BOOLEAN, mcpTool : {""}, directResponse : {FALSE},
   confidence : {700, -50}]

ShapeReplies ==
  RouterReplies
  \cup {[kind |-> "text", status |-> 200, text |-> t, body |-> NoBody] :
          t \in UNION {{<<Obj(d)>>, <<FenceJson, Ws, Obj(d), Ws, Fence>>} :
                         d \in MalformedDecisions}}

RouterShapeInit ==
  /\ TurnInit
  /\ routerIn \in ShapeReplies
  /\ routerOut = NoRouting
  /\ mcpTransport = "stdio"
  /\ GatewayNew
  /\ StoreNew
  /\ ChatNew
  /\ UnitsIdle
  /\ RetrievalIdle

RouterShapeSpec == RouterShapeInit /\ [][RouterNext]_vars

\* -------------------- the 'data' handler on a stream delivered in pieces
\* The response body is a sequence of pieces of text: the prefix "data: ",
\* the first and the second half of the JSON object of a content delta, the
\* marker "[DONE]", and the newline. A data event carries any run of them.
Prefix == [piece |-> "data: ", content |-> ""]
Newline == [piece |-> "\n", content |-> ""]
DoneMarker == [piece |-> "[DONE]", content |-> ""]
JsonHead(c) == [piece |-> "{\"choices\":[{\"delta\":", content |-> c]
JsonTail == [piece |-> "}]}", content |-> ""]

FrameContents == {"", "a", "b"}

\* the event frames of the deltas, then the frame of the marker
RECURSIVE framesOf(_)
framesOf(deltas) ==
  IF deltas = <<>> THEN <<Prefix, DoneMarker, Newline>>
  ELSE <<Prefix, JsonHead(Head(deltas)), JsonTail, Newline>>
       \o framesOf(Tail(deltas))

\* chunk.toString().split('\n')
RECURSIVE splitLines(_, _)
splitLines(pieces, line) ==
  IF pieces = <<>> THEN <<line>>
  ELSE IF Head(pieces) = Newline
       THEN <<line>> \o splitLines(Tail(pieces), <<>>)
       ELSE splitLines(Tail(pieces), Append(line, Head(pieces)))

\* JSON.parse(data) succeeds on a whole object only
parsesAsDelta(data) ==
  /\ Len(data) = 2
  /\ data[1].piece = JsonHead("").piece
  /\ data[2] = JsonTail

\* for (const line of lines) of the 'data' handler
RECURSIVE handleLines(_, _)
handleLines(lines, st) ==
  IF lines = <<>> THEN st
  ELSE LET line == Head(lines)
       IN IF line = <<>> \/ Head(line) # Prefix
          THEN handleLines(Tail(lines), st)
          ELSE LET data == Tail(line)
               IN IF data = <<DoneMarker>>
                  THEN [st EXCEPT !.settled = TRUE,
                                  !.message = IF st.settled THEN @
                                              ELSE st.fullContent]
                  ELSE IF parsesAsDelta(data) /\ data[1].content # ""
                       THEN handleLines(Tail(lines),
                              [st EXCEPT
                                 !.fullContent = Append(@, data[1].content),
                                 !.onChunk = Append(@, data[1].content)])
                       ELSE handleLines(Tail(lines), st)

FramingInit ==
  /\ TurnInit
  /\ message = "m1"
  /\ routerIn = NoReply
  /\ routerOut = NoRouting
  /\ mcpTransport = "stdio"
  /\ GatewayNew
  /\ StoreNew
  /\ ChatNew
  /\ toolResponse = NotRun
  /\ formatterRun = NotRun
  /\ contextRun = NotRun
  /\ \E ds \in UNION {[1..n -> FrameContents] : n \in 0..MaxFrames} :
       framing = [done |-> FALSE, deltas |-> ds, body |-> framesOf(ds),
                  fullContent |-> <<>>, onChunk |-> <<>>,
                  settled |-> FALSE, message |-> <<>>]
  /\ OtherUnitsIdle
  /\ RetrievalIdle

\* response.data.on('data'): the next pieces of the body, however many
FrameData ==
  /\ framing # NotRun
  /\ framing.body # <<>>
  /\ \E n \in 1..Len(framing.body) :
       framing' =
         handleLines(splitLines(SubSeq(framing.body, 1, n), <<>>),
                     [framing EXCEPT
                        !.body = SubSeq(@, n + 1, Len(@))])
  /\ UNCHANGED <<toolResponse, formatterRun, contextRun, otherUnits>>
  /\ UNCHANGED notUnitVars

\* response.data.on('end'): resolves if the marker did not
FrameEnd ==
  /\ framing # NotRun
  /\ framing.body = <<>>
  /\ ~framing.done
  /\ framing' = [framing EXCEPT
                   !.done = TRUE,
                   !.settled = TRUE,
                   !.message = IF framing.settled THEN @
                               ELSE framing.fullContent]
  /\ UNCHANGED <<toolResponse, formatterRun, contextRun, otherUnits>>
  /\ UNCHANGED notUnitVars

FramingNext ==
  \/ FrameData
  \/ FrameEnd

FramingSpec == FramingInit /\ [][FramingNext]_vars


\* everything outside the unit under study, as constructed
OutsideIdle ==
  /\ TurnInit
  /\ message = "m1"
  /\ routerIn = NoReply
  /\ routerOut = NoRouting
  /\ mcpTransport = "stdio"
  /\ GatewayNew
  /\ StoreNew
  /\ ChatNew
  /\ RetrievalIdle

\* ------------------------------------------------- paced streaming of a text
MaxChars == 3
sliceLength == 120

\* a text of n characters: every fifth one is a space
LongText(n) == [i \in 1..n |-> IF i % 5 = 0 THEN " " ELSE "a"]

ShortTexts == UNION {[1..n -> {"a", "b", " "}] : n \in 0..MaxChars}

\* texts around one and two slices in length
LongTexts ==
  {LongText(n) : n \in {sliceLength - 1, sliceLength, sliceLength + 1,
                        2 * sliceLength, 2 * sliceLength + 1}}

\* the long texts go through the slicing variant only
PacedTexts(variant) ==
  IF variant = "slices" THEN ShortTexts \cup LongTexts ELSE ShortTexts

Variants == {"words", "chars", "slices"}

\* formatted.split(/(\s+)/): the whitespace runs and the pieces between
\* them, an empty piece before a leading and after a trailing run, and
\* one empty piece for the empty text
splitCapture(text) ==
  LET runs == Runs(text) IN
    IF runs = <<>> THEN << <<>> >>
    ELSE (IF IsSpace(Head(runs)[1]) THEN << <<>> >> ELSE <<>>)
         \o runs
         \o (IF IsSpace(Last(runs)[1]) THEN << <<>> >> ELSE <<>>)

\* response.slice(i, i + 120) with a width of 119
sliceShort(response, i) ==
  SubSeq(response, i + 1, MinOf(i + sliceLength - 1, Len(response)))

\* response.slice(i, i + 120)
sliceChunk(response, i) ==
  SubSeq(response, i + 1, MinOf(i + sliceLength, Len(response)))

PacingInit ==
  /\ \E variant \in Variants : \E response \in PacedTexts(variant) :
       pacing = [done |-> FALSE, variant |-> variant, response |-> response,
                 words |-> CASE variant = "words" -> splitCapture(response)
                             [] variant = "chars" -> CharsOf(response)
                             [] OTHER -> <<>>,
                 i |-> 0, onChunk |-> <<>>]
  /\ toolResponse = NotRun
  /\ formatterRun = NotRun
  /\ contextRun = NotRun
  /\ framing = NotRun
  /\ intentInit = NotRun
  /\ limiter = NotRun
  /\ OutsideIdle

\* for (const word of words) { if (word) { onChunk(word); await ... } }
PaceWord ==
  /\ pacing # NotRun
  /\ pacing.variant = "words"
  /\ ~pacing.done
  /\ pacing' =
       IF pacing.words = <<>> THEN [pacing EXCEPT !.done = TRUE]
       ELSE [pacing EXCEPT
               !.words = Tail(@),
               !.onChunk = IF Head(pacing.words) # <<>>
                             THEN Append(@, Head(pacing.words))
                             ELSE @]
  /\ UNCHANGED <<toolResponse, formatterRun, contextRun, framing, intentInit,
                 limiter>>
  /\ UNCHANGED notUnitVars

\* for (const char of response) { onChunk(char); await ... }
PaceChar ==
  /\ pacing # NotRun
  /\ pacing.variant = "chars"
  /\ ~pacing.done
  /\ pacing' =
       IF pacing.words = <<>> THEN [pacing EXCEPT !.done = TRUE]
       ELSE [pacing EXCEPT
               !.words = Tail(@),
               !.onChunk = Append(@, Head(pacing.words))]
  /\ UNCHANGED <<toolResponse, formatterRun, contextRun, framing, intentInit,
                 limiter>>
  /\ UNCHANGED notUnitVars

\* for (let i = 0; i < response.length; i += 120) { onChunk(chunk); ... }
PaceSlice ==
  /\ pacing # NotRun
  /\ pacing.variant = "slices"
  /\ ~pacing.done
  /\ pacing' =
       IF ~(pacing.i < Len(pacing.response))
         THEN [pacing EXCEPT !.done = TRUE]
         ELSE [pacing EXCEPT
                 !.i = @ + sliceLength,
                 !.onChunk = Append(@, sliceChunk(pacing.response, pacing.i))]
  /\ UNCHANGED <<toolResponse, formatterRun, contextRun, framing, intentInit,
                 limiter>>
  /\ UNCHANGED notUnitVars

PacingNext ==
  \/ PaceWord
  \/ PaceChar
  \/ PaceSlice

PacingSpec == PacingInit /\ [][PacingNext]_vars

\* --------------------------------- a backend that sends on after the marker
\* the frames of the deltas and of the marker, then the frame of one more
\* content delta
LateFramingInit ==
  /\ \E ds \in UNION {[1..n -> FrameContents] : n \in 0..MaxFrames} :
     \E late \in FrameContents \ {""} :
       framing = [done |-> FALSE, deltas |-> ds,
                  body |-> framesOf(ds)
                             \o <<Prefix, JsonHead(late), JsonTail, Newline>>,
                  fullContent |-> <<>>, onChunk |-> <<>>,
                  settled |-> FALSE, message |-> <<>>]
  /\ toolResponse = NotRun
  /\ formatterRun = NotRun
  /\ contextRun = NotRun
  /\ OtherUnitsIdle
  /\ OutsideIdle

LateFramingSpec == LateFramingInit /\ [][FramingNext]_vars

\* ------------------------------------- IntentEmbeddingsService.initialize
MaxInitializes == 3

\* the tables the embedding function may answer with, and the one a cache
\* file left by an earlier run holds
Tables == {"t1", "t2"}
CachedTable == "t0"

Absent == [state |-> "absent", table |-> "", writer |-> 0]
Whole(t) == [state |-> "whole", table |-> t, writer |-> 0]
Partial(p) == [state |-> "partial", table |-> "", writer |-> p]

CallIdle == [st |-> "idle", own |-> ""]

IntentInit ==
  /\ \E production \in BOOLEAN, file \in {Absent, Whole(CachedTable)} :
       intentInit = [done |-> FALSE, production |-> production,
                     embeddings |-> "", file |-> file,
                     call |-> [p \in Callers |-> CallIdle],
                     started |-> 0, generated |-> 0,
                     settled |-> <<>>, assigned |-> <<>>]
  /\ toolResponse = NotRun
  /\ formatterRun = NotRun
  /\ contextRun = NotRun
  /\ framing = NotRun
  /\ pacing = NotRun
  /\ limiter = NotRun
  /\ OutsideIdle

IntentStep(next) ==
  /\ intentInit # NotRun
  /\ intentInit' = next
  /\ UNCHANGED <<toolResponse, formatterRun, contextRun, framing, pacing,
                 limiter>>
  /\ UNCHANGED notUnitVars

\* the call of p settles: initialize returns or rethrows
Returned(st, p, threw) ==
  [st EXCEPT !.call[p] = CallIdle,
             !.settled = Append(@, [caller |-> p, threw |-> threw])]

\* this.embeddings = await this.generateIntentEmbeddings()
Assigned(st, p, table) ==
  Returned([st EXCEPT !.embeddings = table, !.assigned = Append(@, table)],
           p, FALSE)

\* initialize is entered: it returns at once when this.embeddings is set;
\* otherwise generateIntentEmbeddings awaits fileExists (outside
\* production) or the embedding function
initialize ==
  \E p \in Callers :
    /\ intentInit # NotRun
    /\ intentInit.call[p].st = "idle"
    /\ intentInit.started < MaxInitializes
    /\ LET st == [intentInit EXCEPT !.started = @ + 1] IN
       IntentStep(
         IF intentInit.embeddings # "" THEN Returned(st, p, FALSE)
         ELSE IF ~intentInit.production
           THEN [st EXCEPT !.call[p].st = "exists"]
           ELSE [st EXCEPT !.call[p].st = "generating"])

\* fileExists settled: load the file if it is there, generate otherwise
CacheChecked ==
  \E p \in Callers :
    /\ intentInit # NotRun
    /\ intentInit.call[p].st = "exists"
    /\ IntentStep(
         [intentInit EXCEPT !.call[p].st =
            IF intentInit.file.state # "absent" THEN "reading"
            ELSE "generating"])

\* loadIntentEmbeddings: readFile and JSON.parse; a missing file and a file
\* another call has truncated and not yet written make it throw
loadIntentEmbeddings ==
  \E p \in Callers :
    /\ intentInit # NotRun
    /\ intentInit.call[p].st = "reading"
    /\ IntentStep(
         IF intentInit.file.state = "whole"
           THEN Assigned(intentInit, p, intentInit.file.table)
           ELSE Returned(intentInit, p, TRUE))

\* the embedding function answered for the phrases of every category
Generated ==
  \E p \in Callers, table \in Tables :
    /\ intentInit # NotRun
    /\ intentInit.call[p].st = "generating"
    /\ IntentStep(
         [intentInit EXCEPT !.generated = @ + 1,
                            !.call[p] = [st |-> "cleanup", own |-> table]])

\* fileExists settled: unlink an existing file, then write
CleanupChecked ==
  \E p \in Callers :
    /\ intentInit # NotRun
    /\ intentInit.call[p].st = "cleanup"
    /\ IntentStep(
         [intentInit EXCEPT !.call[p].st =
            IF intentInit.file.state # "absent" THEN "unlinking"
            ELSE "opening"])

\* fs.promises.unlink settled: it rejects when the file is gone by now
Unlinked ==
  \E p \in Callers :
    /\ intentInit # NotRun
    /\ intentInit.call[p].st = "unlinking"
    /\ IntentStep(
         IF intentInit.file.state = "absent"
           THEN Returned(intentInit, p, TRUE)
           ELSE [intentInit EXCEPT !.call[p].st = "opening",
                                   !.file = Absent])

\* fs.promises.writeFile opens the file: it is there, truncated, before
\* its content is
Opened ==
  \E p \in Callers :
    /\ intentInit # NotRun
    /\ intentInit.call[p].st = "opening"
    /\ IntentStep(
         [intentInit EXCEPT !.call[p].st = "writing", !.file = Partial(p)])

\* fs.promises.writeFile settled: the file holds this call's table unless
\* it was unlinked or opened again meanwhile; the table is returned
Written ==
  \E p \in Callers :
    /\ intentInit # NotRun
    /\ intentInit.call[p].st = "writing"
    /\ IntentStep(
         Assigned([intentInit EXCEPT !.file =
                     IF @ = Partial(p) THEN Whole(intentInit.call[p].own)
                     ELSE @],
                  p, intentInit.call[p].own))

IntentNext ==
  \/ initialize
  \/ CacheChecked
  \/ loadIntentEmbeddings
  \/ Generated
  \/ CleanupChecked
  \/ Unlinked
  \/ Opened
  \/ Written

IntentSpec == IntentInit /\ [][IntentNext]_vars

\* ------------------------------- validateChatMessage: the chat rate limiter
MaxRequests == 12
windowMs == 60000
maxPerWindow == 10

ClientIPs == {"ip1", "ip2"}

\* the values Date.now() takes at the requests, in milliseconds
RequestTimes == {0, 59999, 60000}

\* the filter keeping the timestamps of the last 59.999 seconds
recentRequestsShort(clientRequests, now) ==
  SelectSeq(clientRequests, LAMBDA time : now - time < windowMs - 1)

\* clientRequests.filter((time) => now - time < 60000)
recentRequests(clientRequests, now) ==
  SelectSeq(clientRequests, LAMBDA time : now - time < windowMs)

RateInit ==
  /\ limiter = [done |-> FALSE, now |-> 0, served |-> 0,
                rateLimit |-> [ip \in ClientIPs |-> <<>>],
                admitted |-> [ip \in ClientIPs |-> <<>>],
                last |-> [ip |-> "", status |-> 0]]
  /\ toolResponse = NotRun
  /\ formatterRun = NotRun
  /\ contextRun = NotRun
  /\ framing = NotRun
  /\ pacing = NotRun
  /\ intentInit = NotRun
  /\ OutsideIdle

\* one request: a message that fails a content check is answered 400; a
\* client with ten recent requests is answered 429; otherwise now is
\* stored with the recent timestamps and next() is called (status 200
\* stands for the request reaching the next handler)
validateChatMessage ==
  /\ limiter # NotRun
  /\ limiter.served < MaxRequests
  /\ \E clientIP \in ClientIPs, valid \in BOOLEAN, now \in RequestTimes :
       /\ now >= limiter.now
       /\ LET clientRequests == limiter.rateLimit[clientIP]
              recent == recentRequests(clientRequests, now)
              st == [limiter EXCEPT !.now = now, !.served = @ + 1]
          IN limiter' =
               IF ~valid
                 THEN [st EXCEPT !.last = [ip |-> clientIP, status |-> 400]]
               ELSE IF Len(recent) >= maxPerWindow
                 THEN [st EXCEPT !.last = [ip |-> clientIP, status |-> 429]]
               ELSE [st EXCEPT
                       !.rateLimit[clientIP] = Append(recent, now),
                       !.admitted[clientIP] = Append(@, now),
                       !.last = [ip |-> clientIP, status |-> 200]]
  /\ UNCHANGED <<toolResponse, formatterRun, contextRun, framing, pacing,
                 intentInit>>
  /\ UNCHANGED notUnitVars

RateNext == validateChatMessage

RateSpec == RateInit /\ [][RateNext]_vars
\* ================================================================ claims
Terminals(tr) == Count(tr, "done") + Count(tr, "error")
FallbackChunk == Entry("chunk", <<streamingFailedGeneral>>)
Generations == Count(trace, "generate")
FirstIndex(tr, k) == CHOOSE i \in 1..Len(tr) : tr[i].k = k /\ \A j \in 1..(i - 1) : tr[j].k # k

\* C1: every streaming chat turn, whatever the router, the vector search,
\* the tool call and the generator do, eventually writes exactly one
\* terminal line ('done' or 'error') and then ends the response; at no
\* time has it written two, and it never ends without one.
TerminalSignal ==
  /\ [](Terminals(trace) <= 1)
  /\ [](ended <=> Terminals(trace) = 1)
  /\ [](ended => Last(trace).k \in {"done", "error"})
  /\ <>ended

\* C1 witness: a turn whose router, search and generator all failed ended
\* with the 'error' line.
TerminalSignalWitness ==
  /\ ended
  /\ {"router", "search", "generator"} \subseteq failed
  /\ Last(trace).k = "error"

\* C2 (as claimed): a turn in which exactly one stage failed completes
\* without rejecting and has delivered at least one chunk (unless the
\* backend generated no text at all).
FallbackTotality ==
  (pc = "done" /\ Cardinality(failed) = 1) =>
    /\ ~rejected
    /\ \/ Count(trace, "chunk") >= 1
       \/ (genResult.status = "resolved" /\ arrived = <<>>)

\* C3 (as claimed): once the generator has failed, the turn emits one
\* fallback message chunk and the generator is not invoked again.
GeneratorFailureTerminal ==
  ("generator" \in failed) =>
    /\ Generations = 1
    /\ pc = "done" => Len(SelectSeq(trace, LAMBDA e : e = FallbackChunk)) = 1

\* C4 (as claimed): a generation answered with status 401 raises the
\* authentication error, and the caller gets exactly one chunk, the
\* fallback message, with no model text before it.
AuthFailureFallback ==
  (pc = "done" /\ genResult.status = "rejected" /\ Generations = 1
     /\ genResult.error = <<invalidApiKey>>) =>
    ChunksOf(trace) = <<FallbackChunk>>

RouterFailureGoesDirect ==
  ("router" \in failed /\ Generations >= 1) =>
    Count(trace, "search") = 0 /\ Count(trace, "callTool") = 0

\* C7 (amended): after a router failure the turn follows the safe fallback
\* decision into the knowledge flow: one vector search and no tool call
\* precede the first generator call, which is a direct generation only
\* when the search gave no passage.
RouterFailureSearchesFirst ==
  ("router" \in failed) =>
    /\ routing = SafeFallbackDecision
    /\ Count(trace, "search") = 1
    /\ Count(trace, "callTool") = 0
    /\ Generations >= 1 =>
         /\ FirstIndex(trace, "search") < FirstIndex(trace, "generate")
         /\ trace[FirstIndex(trace, "generate")].v =
              IF searchResult.results = <<>> THEN <<"directLLM">> ELSE <<"rag">>

\* C7 witness: the router failed and the knowledge flow is streaming.
RouterFailureSearchesFirstWitness ==
  /\ "router" \in failed
  /\ pc = "streaming"
  /\ flow = "rag"
  /\ Count(trace, "search") = 1

CallToolNeverThrows ==
  \A i \in 1..Len(calls) :
    calls[i].op = "callTool" =>
      /\ ~calls[i].result.threw
      /\ calls[i].fault # "none" =>
           calls[i].result.isError /\ calls[i].result.content = "failureText"

\* C10 (as claimed): with no disconnect, connection setup is performed at
\* most once (a setup that failed aside) and every call is executed over
\* that one connection.
ConnectOnce ==
  (disconnects = 0 /\ closing = 0) =>
    /\ setups - failedSetups <= 1
    /\ \A i, j \in 1..Len(calls) :
         (calls[i].via # 0 /\ calls[j].via # 0) => calls[i].via = calls[j].via

\* C11 (as claimed): when callers race to initialise the vector-store
\* client, one client is constructed, one connection check is performed,
\* and every caller that gets a client gets the same instance.
StoreInitOnce ==
  /\ constructed <= 1
  /\ heartbeats <= 1
  /\ \A i, j \in 1..Len(inits) :
       (~inits[i].threw /\ ~inits[j].threw) => inits[i].got = inits[j].got

\* C12 (as claimed): every conversation passed to the language-model
\* backend, the routing call included, has a system message as its first
\* element and no other system message.
SystemMessageFirst ==
  \A i \in 1..Len(sent) :
    /\ sent[i][1].role = "system"
    /\ \A j \in 2..Len(sent[i]) : sent[i][j].role # "system"

\* C13 (as claimed): when the decision selects personal knowledge and the
\* search gave no passage, the generator is invoked exactly once, with the
\* persona system message, the history and the unmodified message; with at
\* least one passage it is invoked with the passages joined into the final
\* user message.
KnowledgeFallback ==
  (RouteOf(routing) = "rag" /\ searchOutcome # NoOutcome) =>
    IF searchResult.results = <<>>
      THEN /\ Generations = 1
           /\ sent[2] = directMessages(message, history)
      ELSE /\ Last(sent[2]).kind = "contextMessage"
           /\ Last(sent[2]).ctx = searchResult.results
           /\ Last(sent[2]).text = message

FailureMessagesSafe ==
  genResult.status = "rejected" =>
    /\ genResult.error[1] =
         (CASE genResult.by = "401" -> invalidApiKey
            [] genResult.by = "429" -> rateLimit
            [] genResult.by = "400" -> badRequest
            [] genResult.by = "streamError" -> streamingFailed
            [] OTHER -> streamingFailedGeneral)
    /\ Cardinality({invalidApiKey, rateLimit, badRequest, streamingFailed,
                    streamingFailedGeneral}) = 5
    /\ \A i \in 1..Len(genResult.error) : genResult.error[i] # BackendText

\* C17: for every list of retrieved passages, the context retrieveContext
\* assembles, headers and separators included, is at most maxTotalLength
\* characters long.
ContextWithinBudget ==
  (ctxOut.done /\ ~ctxOut.isNull) => ctxOut.length <= maxTotalLength

\* a is b with some elements left out
RECURSIVE IsSubsequence(_, _)
IsSubsequence(a, b) ==
  IF a = <<>> THEN TRUE
  ELSE IF b = <<>> THEN FALSE
       ELSE IF Head(a) = Head(b) THEN IsSubsequence(Tail(a), Tail(b))
            ELSE IsSubsequence(a, Tail(b))

\* C18: for every list of ranked documents and cutoffs c1 < c2, the documents
\* filterDocumentsByRelevance keeps under c2 are among those it keeps under
\* c1, so raising the cutoff never increases the result count.
CutoffMonotone ==
  rankOut.done =>
    /\ IsSubsequence(rankOut.high, rankOut.low)
    /\ Len(rankOut.high) <= Len(rankOut.low)

\* the higher cutoff drops a document the lower one keeps, and keeps another
CutoffMonotoneWitness ==
  /\ rankOut.done
  /\ rankIn.low < rankIn.high
  /\ 0 < Len(rankOut.high)
  /\ Len(rankOut.high) < Len(rankOut.low)

\* the rerank results whose score is at least the cutoff, in their order
AtLeastCutoff(results, cutoff) ==
  LET atLeast(result) == result.relevance_score >= cutoff
  IN SelectSeq(results, atLeast)

KeptAreAtLeastCutoff(kept, cutoff) ==
  LET expected == AtLeastCutoff(rankIn.results, cutoff)
  IN /\ Len(kept) = Len(expected)
     /\ \A i \in DOMAIN kept :
          /\ kept[i].text = chromaDocuments[expected[i].index + 1]
          /\ kept[i].source = chromaMetadatas[expected[i].index + 1].source

\* C19: after reranking and filtering, the documents kept are exactly those
\* whose rerank relevance_score is at least the cutoff, in the reranker's
\* order, each with the text and source of its own index.
KeptExactlyAtLeastCutoff ==
  rankOut.done =>
    /\ KeptAreAtLeastCutoff(rankOut.low, rankIn.low)
    /\ KeptAreAtLeastCutoff(rankOut.high, rankIn.high)

\* the largest cosine of a nonempty table
MaxCosine(table) ==
  CHOOSE c \in {table[i].cosine : i \in DOMAIN table} :
    \A i \in DOMAIN table : table[i].cosine <= c

\* C20: the band follows the cosine score of the winning category: strong
\* iff score >= 0.6, middle iff 0.4 <= score < 0.6, weak iff score < 0.4;
\* only the strong band narrows the query to the winning category.
BandFollowsCosine ==
  (strategyOut.done /\ intentIn.intentEmbeddings # <<>>) =>
    LET score == MaxCosine(intentIn.intentEmbeddings)
        logged == strategyOut.retrievalStrategy.logged
    IN /\ logged = "Strong match" <=> score >= strongThreshold
       /\ logged = "Middle match" <=>
            (middleThreshold <= score /\ score < strongThreshold)
       /\ logged = "Uncertain match" <=> score < middleThreshold
       /\ strategyOut.query.where =
            (IF logged = "Strong match"
             THEN [source |-> strategyOut.classified.bestIntent]
             ELSE NoMetadata)

\* C21: for every band and every winning intent, the cutoff and the result
\* count decideRetrievalStrategy returns are the ones configured for the
\* band (RETRIEVAL_STRONG_*, RETRIEVAL_MIDDLE_*, RETRIEVAL_WEAK_*).
StrategyIsConfigured ==
  strategyOut.done =>
    LET strategy == strategyOut.retrievalStrategy
        env == intentIn.env
    IN /\ strategy.logged = "Strong match" =>
            /\ strategy.retrievalCutoff = env.RETRIEVAL_STRONG_CUTOFF
            /\ strategy.top_k = env.RETRIEVAL_STRONG_TOP_K
       /\ strategy.logged = "Middle match" =>
            /\ strategy.retrievalCutoff = env.RETRIEVAL_MIDDLE_CUTOFF
            /\ strategy.top_k = env.RETRIEVAL_MIDDLE_TOP_K
       /\ strategy.logged = "Uncertain match" =>
            /\ strategy.retrievalCutoff = env.RETRIEVAL_WEAK_CUTOFF
            /\ strategy.top_k = env.RETRIEVAL_WEAK_TOP_K

\* the first position of the table holding its largest cosine
FirstArgmax(table) ==
  CHOOSE i \in DOMAIN table :
    /\ table[i].cosine = MaxCosine(table)
    /\ \A j \in DOMAIN table : table[j].cosine = MaxCosine(table) => i <= j

\* C22: classifyQuery returns the category of maximum cosine similarity; on
\* an exact tie the category that comes first in the exemplar table wins; the
\* category is a function of the table's cosines alone.
ArgmaxFirstSeen ==
  (strategyOut.step # "classify" /\ intentIn.intentEmbeddings # <<>>) =>
    LET table == intentIn.intentEmbeddings
    IN strategyOut.classified.bestIntent = table[FirstArgmax(table)].intent

\* two categories tie at the maximum and the first one was returned
ArgmaxFirstSeenWitness ==
  /\ strategyOut.step # "classify"
  /\ Len(intentIn.intentEmbeddings) >= 2
  /\ \E i, j \in DOMAIN intentIn.intentEmbeddings :
       /\ i < j
       /\ intentIn.intentEmbeddings[i].cosine =
            MaxCosine(intentIn.intentEmbeddings)
       /\ intentIn.intentEmbeddings[j].cosine =
            MaxCosine(intentIn.intentEmbeddings)
       /\ strategyOut.classified.bestIntent =
            intentIn.intentEmbeddings[i].intent

\* the raw content of a tool response that came back
RawContent == toolResponse.response.result.content

\* C23: callTool returns content as an ordered array: an array unchanged and
\* in order, a single non-array value as a one-element array of one text
\* item, missing or empty content as the empty array; isError is a boolean.
ContentNormalized ==
  toolResponse.done =>
    /\ toolResponse.returned.isError \in BOOLEAN
    /\ DOMAIN toolResponse.returned.content =
         1..Len(toolResponse.returned.content)
    /\ (~toolResponse.response.threw
        /\ toolResponse.response.result # Undefined) =>
         LET returned == toolResponse.returned.content
         IN CASE RawContent.type = "array" -> returned = RawContent.items
              [] RawContent \in {Undefined, Null, Str("")} ->
                   returned = <<>>
              [] OTHER -> /\ Len(returned) = 1
                          /\ returned[1].type = "text"

\* the result the formatter was given has no usable content
NoUsableResult ==
  \/ formatterRun.results = <<>>
  \/ formatterRun.results[1].isError
  \/ Len(formatterRun.results[1].content) = 0

\* the first content item of the result, when there is one
FirstContent == formatterRun.results[1].content[1]

TextFailsToParse ==
  /\ ~NoUsableResult
  /\ FirstContent.item = "text"
  /\ FirstContent.text.json = "invalid"

PayloadHasError ==
  /\ ~NoUsableResult
  /\ FirstContent.item = "text"
  /\ FirstContent.text.json = "object"
  /\ FirstContent.text.error # NoErrorField

\* C24: every registered formatter returns a {data, formatted} pair and
\* never throws; a payload with an `error` field is formatted as exactly
\* that error string; a missing, error-flagged or empty result, or a text
\* that fails to parse, is formatted as the category's one default message.
FormatterTotal ==
  formatterRun.done =>
    /\ ~formatterRun.returned.threw
    /\ PayloadHasError =>
         formatterRun.returned.formatted = FirstContent.text.error
    /\ (NoUsableResult \/ TextFailsToParse) =>
         formatterRun.returned.formatted =
           format(formatterRun.service, <<>>).formatted

\* C24 as the formatters go: total; a non-empty `error` string of the payload
\* is formatted as exactly that string; a missing, error-flagged or empty
\* result gives the category's no-data message and a text that fails to
\* parse the category's parse-failure message, which differ for the spotify
\* and project categories.
FormatterTotalPerFailure ==
  formatterRun.done =>
    /\ ~formatterRun.returned.threw
    /\ (PayloadHasError /\ FirstContent.text.error # "") =>
         formatterRun.returned.formatted = FirstContent.text.error
    /\ NoUsableResult =>
         formatterRun.returned.formatted =
           noDataFormatted(formatterRun.service)
    /\ TextFailsToParse =>
         formatterRun.returned.formatted =
           parsingFailedFormatted(formatterRun.service)

\* the text of the spotify result failed to parse and the formatter returned
FormatterTotalWitness ==
  /\ formatterRun.done
  /\ formatterRun.service = "spotify"
  /\ TextFailsToParse
  /\ ~formatterRun.returned.threw

\* C25: generateContext fails soft: when computing the query embedding
\* fails or the exemplar table cannot be loaded, it does not throw to its
\* caller and returns a (possibly empty) result.
ContextFailsSoft ==
  (contextRun # NotRun /\ contextRun.done) =>
    contextRun.threw \notin {"embedding", "intentEmbeddings"}

\* C26: every decision smartRouting returns is well-formed: useRAG and
\* directResponse are booleans, mcpTool is a tool name or empty, confidence
\* lies in [0, 1] (0..100 hundredths); a JSON reply of another shape gives
\* the safe fallback decision.
DecisionWellFormed ==
  routerOut # NoRouting =>
    /\ routerOut.decision.useRAG \in BOOLEAN
    /\ routerOut.decision.directResponse \in BOOLEAN
    /\ routerOut.decision.mcpTool \in ToolNames \cup {""}
    /\ routerOut.decision.confidence \in 0..100

\* C27: the passages are ordered by ascending distance, best first: of two
\* retrieved passages the one with the smaller distance, a distance of 0
\* included, is placed and considered for selection first.
AscendingDistance ==
  (ctxOut.done /\ ~ctxOut.isNull) =>
    \A i, j \in DOMAIN ctxOut.selectedChunks :
      i < j =>
        ctxOut.selectedChunks[i].distance <= ctxOut.selectedChunks[j].distance

RECURSIVE SumContent(_)
SumContent(results) ==
  IF results = <<>> THEN 0
  ELSE Head(results).content + SumContent(Tail(results))

\* C28: after the top passages the remaining budget is filled: when more
\* passages than the top three were retrieved and the budget has room for
\* them, the others are added too (new sources and sections first, then the
\* leftovers), each passage at most once.
RemainingBudgetFilled ==
  (ctxOut.done /\ ~ctxOut.isNull) =>
    /\ \A i, j \in DOMAIN ctxOut.selectedChunks :
         i # j => ctxOut.selectedChunks[i].id # ctxOut.selectedChunks[j].id
    /\ (Len(ctxIn) > topRelevantCount
        /\ SumContent(ctxIn) <= maxTotalLength) =>
         Len(ctxOut.selectedChunks) = Len(ctxIn)

\* the non-empty content deltas, in order
NonEmptyDeltas(deltas) ==
  LET nonEmpty(c) == c # ""
  IN SelectSeq(deltas, nonEmpty)

\* C29: however the frames are divided into data events, a frame in two
\* events included, onChunk is invoked exactly once for each non-empty
\* content delta sent before the marker, in order, and the generator
\* resolves with the concatenation of those deltas.
FramesSurviveSplitting ==
  (framing # NotRun /\ framing.done) =>
    /\ framing.onChunk = NonEmptyDeltas(framing.deltas)
    /\ framing.message = NonEmptyDeltas(framing.deltas)

\* C30: for every routing decision generateStreamingResponse enters exactly
\* one of four flows: the direct tool reply when directResponse is set and
\* the tool name is non-empty; otherwise retrieval when useRAG is set;
\* otherwise the tool with elaboration when the tool name is non-empty;
\* otherwise direct generation.
FlowByPrecedence ==
  [][(pc = "routing" /\ pc' # "routing") =>
       LET direct == routing'.directResponse /\ routing'.mcpTool # ""
           rag == ~direct /\ routing'.useRAG
           tool == ~direct /\ ~rag /\ routing'.mcpTool # ""
       IN /\ (flow' = "directMCP" /\ pc' = "directTool") <=> direct
          /\ (flow' = "rag" /\ pc' = "search") <=> rag
          /\ (flow' = "mcp" /\ pc' = "tool") <=> tool
          /\ (flow' = "directLLM" /\ pc' = "post") <=>
               (~direct /\ ~rag /\ ~tool)]_vars

\* a decision with every flag set has entered the direct tool reply
FlowByPrecedenceWitness ==
  /\ pc = "directTool"
  /\ flow = "directMCP"
  /\ routing.useRAG
  /\ routing.directResponse
  /\ routing.mcpTool # ""

\* C31: within one chat turn, along every fallback path, the Orchestrator
\* never performs both a vector search and a tool call.
SearchExcludesTool ==
  ~(Count(trace, "search") > 0 /\ Count(trace, "callTool") > 0)

\* C32: paced streaming of a formatted text is lossless: in each variant
\* (word and whitespace runs, single characters, 120-character slices) no
\* chunk handed to onChunk is empty, the chunks delivered so far are a
\* prefix of the text, and once the loop is over their concatenation is
\* the text exactly.
PacedStreamingLossless ==
  pacing # NotRun =>
    /\ \A k \in 1..Len(pacing.onChunk) : pacing.onChunk[k] # <<>>
    /\ LET delivered == Flatten(pacing.onChunk) IN
         /\ Len(delivered) <= Len(pacing.response)
         /\ delivered = SubSeq(pacing.response, 1, Len(delivered))
         /\ pacing.done => delivered = pacing.response

\* C32 witness: a text longer than one slice was delivered to its end in
\* three slices, the last one shorter than the others.
PacedStreamingLosslessWitness ==
  /\ pacing # NotRun
  /\ pacing.done
  /\ pacing.variant = "slices"
  /\ Len(pacing.onChunk) = 3
  /\ Len(pacing.onChunk[3]) < sliceLength

\* C33: in every reachable state of the tool gateway isConnected is true
\* only while the client handle of the active transport is non-null.
ConnectedHasClient ==
  isConnected =>
    IF transportType = "http" THEN httpClient # 0 ELSE client # 0

\* the clients whose heartbeat had succeeded when the first k calls settled
Verified(k) ==
  {inits[j].own : j \in {i \in 1..k : ~inits[i].threw /\ inits[i].own # 0}}

\* C34: initializeChromaDB returns a client only when a heartbeat on that
\* client has succeeded, and a call that follows one whose heartbeat failed
\* does not return the unverified client.
ClientHandedOutVerified ==
  \A k \in 1..Len(inits) :
    inits[k].got # 0 => inits[k].got \in Verified(k)

\* C35: onChunk is not invoked after the streaming generation call has
\* settled: once the promise is resolved, the chunks handed to onChunk are
\* those of the content the promise was resolved with.
NoChunkAfterSettled ==
  (framing # NotRun /\ framing.settled) => framing.onChunk = framing.message

\* C36: across repeated or concurrent initialize() calls the embedding
\* function is invoked for the exemplar phrases at most once, no call
\* fails over the cache file, and every table assigned to the service is
\* the same one.
EmbeddingsGeneratedOnce ==
  intentInit # NotRun =>
    /\ intentInit.generated <= 1
    /\ \A k \in 1..Len(intentInit.settled) : ~intentInit.settled[k].threw
    /\ \A i, j \in 1..Len(intentInit.assigned) :
         intentInit.assigned[i] = intentInit.assigned[j]

\* the conversations sent to the generator that carry a tool context
ToolContextsSent ==
  SelectSeq(sent, LAMBDA m : Last(m).kind = "toolContextMessage")

\* C37: in the tool-with-elaboration flow, once the tool call has settled
\* the generator has been invoked exactly once with the tool context,
\* whatever the tool did; a tool that threw or returned an error-flagged
\* result contributes nothing or the fixed note, a tool without text
\* contributes nothing.
ToolFailureStillGenerates ==
  (RouteOf(routing) = "mcp" /\ Count(trace, "callTool") > 0 /\ pc # "tool") =>
    /\ Len(SelectSeq(trace, LAMBDA e : e = Entry("generate", <<"mcp">>))) = 1
    /\ Len(ToolContextsSent) = 1
    /\ "tool" \in failed =>
         Last(ToolContextsSent[1]).ctx
           \in {<<>>, <<"Error - Tool unavailable">>}

\* C37 witness: the tool threw, the generator was called with the fixed
\* note as tool context, and the turn ended with its chunks delivered.
ToolFailureStillGeneratesWitness ==
  /\ RouteOf(routing) = "mcp"
  /\ "tool" \in failed
  /\ pc = "done"
  /\ ~rejected
  /\ Len(ToolContextsSent) = 1
  /\ Last(ToolContextsSent[1]).ctx = <<"Error - Tool unavailable">>
  /\ Count(trace, "chunk") > 0

\* the requests of ip admitted in the window of 60 seconds starting at a
AdmittedIn(st, ip, a) ==
  Len(SelectSeq(st.admitted[ip],
                LAMBDA time : a <= time /\ time < a + windowMs))

\* C38: for every client IP at most 10 requests reach the next handler
\* within any 60-second window; a request answered 429 leaves the stored
\* timestamps unchanged; a request of one IP leaves the timestamps stored
\* for every other IP unchanged.
RateLimitHolds ==
  [][limiter # NotRun =>
       /\ \A ip \in ClientIPs : \A a \in RequestTimes :
            AdmittedIn(limiter', ip, a) <= maxPerWindow
       /\ limiter'.last.status = 429 => limiter'.rateLimit = limiter.rateLimit
       /\ \A ip \in ClientIPs \ {limiter'.last.ip} :
            limiter'.rateLimit[ip] = limiter.rateLimit[ip]]_vars

\* C38 witness: a client was answered 429 with ten requests admitted in
\* the current window, while the other client had a request admitted.
RateLimitHoldsWitness ==
  /\ limiter # NotRun
  /\ limiter.last = [ip |-> "ip1", status |-> 429]
  /\ AdmittedIn(limiter, "ip1", 0) = maxPerWindow
  /\ limiter.now = 59999
  /\ Len(limiter.admitted["ip2"]) > 0

====
